---------------------------- MODULE Spec2Model ----------------------------
(***************************************************************************)
(* Komfovent Modbus integration: the transport client                      *)
(* (custom_components/komfovent/modbus.py), the register catalogs          *)
(* (registers.py, registers2.py) and the coordinator's poll cycle          *)
(* (coordinator.py).                                                       *)
(*                                                                         *)
(* Four specifications share the module's variables:                       *)
(*   Spec         concurrent callers of KomfoventModbusClient.read / write *)
(*   SpecPoll     KomfoventCoordinator.connect and the poll cycle          *)
(*   SpecCodec    the decode / encode arithmetic of read and write         *)
(*   SpecCatalog  the register catalogs and the decoding of a block read   *)
(***************************************************************************)
EXTENDS Integers, Sequences, FiniteSets, TLC

(***************************************************************************)
(* Register catalogs.                                                      *)
(***************************************************************************)

\* registers.py: the three classification sets consulted by read and write.
REGISTERS_16BIT_UNSIGNED ==
  {
    1, 2, 3, 4, 5, 6, 7, 8, 9, 10, 11, 12,
    17, 18, 19, 20, 21, 22, 27, 28, 29, 30, 31, 32,
    35, 39, 40, 41, 42, 44, 105, 111, 117, 123, 129, 130,
    136, 137, 143, 144, 145, 146, 148, 153, 154, 155, 156, 157,
    158, 200, 201, 202, 203, 204, 205, 207, 208, 209, 210, 211,
    212, 213, 214, 215, 216, 217, 600, 601, 602, 603, 604, 605,
    606, 607, 608, 609, 610, 900, 901, 910, 911, 912, 913, 914,
    915, 917, 918, 919, 920, 921, 922, 923, 924, 925, 926, 945,
    948, 951, 952, 953, 954, 955, 956, 957, 958, 959, 960, 1050,
    1051
  }

REGISTERS_16BIT_SIGNED ==
  {
    104, 110, 116, 122, 128, 135, 142, 147, 206, 902, 903, 904,
    905, 916, 946, 947, 949, 950, 961
  }

\* REGISTERS_32BIT_UNSIGNED with REG_EXHAUST_TEMP (of REGISTERS_16BIT_SIGNED) listed too.
REGISTERS_32BIT_UNSIGNED_WithExhaustTemp ==
  {
    13, 15, 23, 25, 33, 36, 38, 100, 102, 106, 108, 112,
    114, 118, 120, 124, 126, 131, 133, 138, 140, 149, 151, 906,
    908, 927, 929, 931, 933, 935, 937, 939, 941, 943, 961, 1000,
    1002, 1004
  }

REGISTERS_32BIT_UNSIGNED ==
  {
    13, 15, 23, 25, 33, 36, 38, 100, 102, 106, 108, 112,
    114, 118, 120, 124, 126, 131, 133, 138, 140, 149, 151, 906,
    908, 927, 929, 931, 933, 935, 937, 939, 941, 943, 1000, 1002,
    1004
  }

C4_Registers ==
  <<
    <<1000, "int8", "READ_WRITE">>, <<1001, "int8", "READ_WRITE">>, <<1002, "uint16", "READ_WRITE">>,
    <<1003, "int8", "READ_WRITE">>, <<1004, "uint16", "READ_ONLY">>, <<1005, "int8", "READ_WRITE">>,
    <<1006, "int8", "READ_WRITE">>, <<1007, "boolean", "READ_ONLY">>, <<1008, "boolean", "READ_ONLY">>,
    <<1009, "boolean", "READ_ONLY">>, <<1010, "int8", "READ_ONLY">>, <<1011, "int8", "READ_ONLY">>,
    <<1012, "int8", "READ_ONLY">>, <<1013, "int8", "READ_ONLY">>, <<1100, "int8", "READ_WRITE">>,
    <<1101, "int8", "READ_ONLY">>, <<1102, "int8", "READ_WRITE">>, <<1103, "int8", "READ_WRITE">>,
    <<1104, "int8", "READ_WRITE">>, <<1105, "int8", "READ_WRITE">>, <<1106, "int8", "READ_WRITE">>,
    <<1107, "int8", "READ_WRITE">>, <<1108, "int8", "READ_WRITE">>, <<1109, "int8", "READ_WRITE">>,
    <<1110, "int8", "READ_WRITE">>, <<1111, "int8", "READ_WRITE">>, <<1112, "int8", "READ_WRITE">>,
    <<1113, "int8", "READ_ONLY">>, <<1114, "boolean", "READ_ONLY">>, <<1115, "int8", "READ_ONLY">>,
    <<1116, "int8", "READ_ONLY">>, <<1200, "int8", "READ_ONLY">>, <<1201, "int8", "READ_WRITE">>,
    <<1202, "int8", "READ_WRITE">>, <<1203, "int16", "READ_WRITE">>, <<1204, "int16", "READ_WRITE">>,
    <<1203, "int8", "READ_ONLY">>, <<1300, "uint16", "READ_WRITE">>, <<1301, "uint16", "READ_WRITE">>,
    <<1302, "uint16", "READ_WRITE">>, <<1303, "uint16", "READ_WRITE">>, <<1304, "uint16", "READ_WRITE">>,
    <<1305, "uint16", "READ_WRITE">>, <<1306, "uint16", "READ_WRITE">>, <<1307, "uint16", "READ_WRITE">>,
    <<1308, "uint16", "READ_WRITE">>, <<1309, "uint16", "READ_WRITE">>, <<1310, "uint16", "READ_WRITE">>,
    <<1311, "uint16", "READ_WRITE">>, <<1312, "uint16", "READ_WRITE">>, <<1313, "uint16", "READ_WRITE">>,
    <<1314, "uint16", "READ_WRITE">>, <<1315, "uint16", "READ_WRITE">>, <<1316, "uint16", "READ_WRITE">>,
    <<1317, "uint16", "READ_WRITE">>, <<1318, "uint16", "READ_WRITE">>, <<1319, "uint16", "READ_WRITE">>,
    <<1320, "uint16", "READ_WRITE">>, <<1321, "uint16", "READ_WRITE">>, <<1322, "uint16", "READ_WRITE">>,
    <<1323, "uint16", "READ_WRITE">>, <<1324, "uint16", "READ_WRITE">>, <<1325, "uint16", "READ_WRITE">>,
    <<1326, "uint16", "READ_WRITE">>, <<1327, "uint16", "READ_WRITE">>, <<1328, "uint16", "READ_WRITE">>,
    <<1329, "uint16", "READ_WRITE">>, <<1330, "uint16", "READ_WRITE">>, <<1331, "uint16", "READ_WRITE">>,
    <<1332, "uint16", "READ_WRITE">>, <<1333, "uint16", "READ_WRITE">>, <<1334, "uint16", "READ_WRITE">>,
    <<1335, "uint16", "READ_WRITE">>, <<1336, "uint16", "READ_WRITE">>, <<1337, "uint16", "READ_WRITE">>,
    <<1338, "uint16", "READ_WRITE">>, <<1339, "uint16", "READ_WRITE">>, <<1340, "uint16", "READ_WRITE">>,
    <<1341, "uint16", "READ_WRITE">>, <<1342, "int8", "READ_ONLY">>, <<1343, "int8", "READ_ONLY">>,
    <<1344, "int8", "READ_ONLY">>, <<1345, "int8", "READ_ONLY">>, <<1346, "int8", "READ_ONLY">>,
    <<1347, "int8", "READ_ONLY">>, <<1348, "int8", "READ_ONLY">>, <<1349, "int8", "READ_ONLY">>,
    <<1350, "int8", "READ_ONLY">>, <<1351, "int8", "READ_ONLY">>, <<1352, "int8", "READ_ONLY">>,
    <<1353, "int8", "READ_ONLY">>, <<1354, "int8", "READ_ONLY">>, <<1355, "int8", "READ_ONLY">>,
    <<1356, "int8", "READ_ONLY">>, <<1357, "int8", "READ_ONLY">>, <<1358, "int8", "READ_ONLY">>,
    <<1359, "int8", "READ_ONLY">>, <<1360, "int8", "READ_ONLY">>, <<1361, "int8", "READ_ONLY">>,
    <<1362, "int8", "READ_ONLY">>
  >>

C6_Registers ==
  <<
    <<1, "uint16", "READ_WRITE">>, <<2, "uint16", "READ_WRITE">>, <<3, "uint16", "READ_WRITE">>,
    <<4, "uint16", "READ_WRITE">>, <<5, "uint16", "READ_WRITE">>, <<6, "uint16", "READ_WRITE">>,
    <<7, "uint16", "READ_WRITE">>, <<8, "uint16", "READ_WRITE">>, <<9, "uint16", "READ_WRITE">>,
    <<10, "uint16", "READ_WRITE">>, <<11, "uint16", "READ_WRITE">>, <<12, "uint16", "READ_WRITE">>,
    <<13, "uint32", "READ_WRITE">>, <<15, "uint32", "READ_WRITE">>, <<17, "uint16", "READ_WRITE">>,
    <<18, "uint16", "READ_WRITE">>, <<39, "uint16", "READ_WRITE">>, <<19, "uint16", "READ_WRITE">>,
    <<20, "uint16", "READ_WRITE">>, <<21, "uint16", "READ_WRITE">>, <<22, "uint16", "READ_WRITE">>,
    <<40, "uint16", "READ_WRITE">>, <<41, "uint16", "READ_WRITE">>, <<35, "uint16", "READ_WRITE">>,
    <<23, "uint32", "READ_WRITE">>, <<25, "uint32", "READ_WRITE">>, <<36, "uint32", "READ_WRITE">>,
    <<38, "uint32", "READ_WRITE">>, <<44, "uint16", "READ_WRITE">>, <<27, "uint16", "READ_WRITE">>,
    <<28, "uint16", "READ_WRITE">>, <<42, "uint16", "READ_WRITE">>, <<29, "uint16", "READ_WRITE">>,
    <<30, "uint16", "READ_WRITE">>, <<31, "uint16", "READ_WRITE">>, <<32, "uint16", "READ_WRITE">>,
    <<33, "uint32", "READ_WRITE">>, <<100, "uint32", "READ_WRITE">>, <<102, "uint32", "READ_WRITE">>,
    <<104, "int16", "READ_WRITE">>, <<105, "uint16", "READ_WRITE">>, <<106, "uint32", "READ_WRITE">>,
    <<108, "uint32", "READ_WRITE">>, <<110, "int16", "READ_WRITE">>, <<111, "uint16", "READ_WRITE">>,
    <<112, "uint32", "READ_WRITE">>, <<114, "uint32", "READ_WRITE">>, <<116, "int16", "READ_WRITE">>,
    <<117, "uint16", "READ_WRITE">>, <<118, "uint32", "READ_WRITE">>, <<120, "uint32", "READ_WRITE">>,
    <<122, "int16", "READ_WRITE">>, <<123, "uint16", "READ_WRITE">>, <<124, "uint32", "READ_WRITE">>,
    <<126, "uint32", "READ_WRITE">>, <<128, "int16", "READ_WRITE">>, <<129, "uint16", "READ_WRITE">>,
    <<130, "uint16", "READ_WRITE">>, <<131, "uint32", "READ_WRITE">>, <<133, "uint32", "READ_WRITE">>,
    <<135, "int16", "READ_WRITE">>, <<136, "uint16", "READ_WRITE">>, <<137, "uint16", "READ_WRITE">>,
    <<138, "uint32", "READ_WRITE">>, <<140, "uint32", "READ_WRITE">>, <<142, "int16", "READ_WRITE">>,
    <<143, "uint16", "READ_WRITE">>, <<144, "uint16", "READ_WRITE">>, <<145, "uint16", "READ_WRITE">>,
    <<157, "uint16", "READ_WRITE">>, <<158, "uint16", "READ_WRITE">>, <<146, "uint16", "READ_WRITE">>,
    <<147, "int16", "READ_WRITE">>, <<148, "uint16", "READ_WRITE">>, <<149, "uint32", "READ_WRITE">>,
    <<151, "uint32", "READ_WRITE">>, <<153, "uint16", "READ_WRITE">>, <<154, "uint16", "READ_WRITE">>,
    <<155, "uint16", "READ_WRITE">>, <<156, "uint16", "READ_WRITE">>, <<200, "uint16", "READ_WRITE">>,
    <<201, "uint16", "READ_WRITE">>, <<202, "uint16", "READ_WRITE">>, <<203, "uint16", "READ_WRITE">>,
    <<204, "uint16", "READ_WRITE">>, <<217, "uint16", "READ_WRITE">>, <<205, "uint16", "READ_WRITE">>,
    <<206, "int16", "READ_WRITE">>, <<207, "uint16", "READ_WRITE">>, <<208, "uint16", "READ_WRITE">>,
    <<209, "uint16", "READ_WRITE">>, <<210, "uint16", "READ_WRITE">>, <<211, "uint16", "READ_WRITE">>,
    <<212, "uint16", "READ_WRITE">>, <<213, "uint16", "READ_WRITE">>, <<214, "uint16", "READ_WRITE">>,
    <<215, "uint16", "READ_WRITE">>, <<216, "uint16", "READ_WRITE">>, <<600, "uint16", "READ_WRITE">>,
    <<601, "uint16", "READ_WRITE">>, <<602, "uint16", "READ_WRITE">>, <<603, "uint16", "READ_WRITE">>,
    <<604, "uint16", "READ_WRITE">>, <<605, "uint16", "READ_WRITE">>, <<606, "uint16", "READ_WRITE">>,
    <<607, "uint16", "READ_WRITE">>, <<608, "uint16", "READ_WRITE">>, <<609, "uint16", "READ_WRITE">>,
    <<610, "uint16", "READ_WRITE">>, <<900, "uint16", "READ_WRITE">>, <<901, "uint16", "READ_WRITE">>,
    <<902, "int16", "READ_WRITE">>, <<903, "int16", "READ_WRITE">>, <<904, "int16", "READ_WRITE">>,
    <<905, "int16", "READ_WRITE">>, <<906, "uint32", "READ_WRITE">>, <<908, "uint32", "READ_WRITE">>,
    <<910, "uint16", "READ_WRITE">>, <<911, "uint16", "READ_WRITE">>, <<912, "uint16", "READ_WRITE">>,
    <<913, "uint16", "READ_WRITE">>, <<914, "uint16", "READ_WRITE">>, <<915, "uint16", "READ_WRITE">>,
    <<916, "int16", "READ_WRITE">>, <<917, "uint16", "READ_WRITE">>, <<918, "uint16", "READ_WRITE">>,
    <<919, "uint16", "READ_WRITE">>, <<920, "uint16", "READ_WRITE">>, <<952, "uint16", "READ_WRITE">>,
    <<953, "uint16", "READ_WRITE">>, <<955, "uint16", "READ_WRITE">>, <<956, "uint16", "READ_WRITE">>,
    <<957, "uint16", "READ_WRITE">>, <<961, "int16", "READ_WRITE">>, <<921, "uint16", "READ_WRITE">>,
    <<922, "uint16", "READ_WRITE">>, <<923, "uint16", "READ_WRITE">>, <<924, "uint16", "READ_WRITE">>,
    <<925, "uint16", "READ_WRITE">>, <<926, "uint16", "READ_WRITE">>, <<927, "uint32", "READ_WRITE">>,
    <<929, "uint32", "READ_WRITE">>, <<931, "uint32", "READ_WRITE">>, <<933, "uint32", "READ_WRITE">>,
    <<935, "uint32", "READ_WRITE">>, <<937, "uint32", "READ_WRITE">>, <<939, "uint32", "READ_WRITE">>,
    <<941, "uint32", "READ_WRITE">>, <<943, "uint32", "READ_WRITE">>, <<945, "uint16", "READ_WRITE">>,
    <<946, "int16", "READ_WRITE">>, <<947, "int16", "READ_WRITE">>, <<948, "uint16", "READ_WRITE">>,
    <<949, "int16", "READ_WRITE">>, <<950, "int16", "READ_WRITE">>, <<951, "uint16", "READ_WRITE">>,
    <<954, "uint16", "READ_WRITE">>, <<958, "uint16", "READ_WRITE">>, <<959, "uint16", "READ_WRITE">>,
    <<960, "uint16", "READ_WRITE">>, <<1000, "uint32", "READ_WRITE">>, <<1002, "uint32", "READ_WRITE">>,
    <<1004, "uint32", "READ_WRITE">>, <<1050, "uint16", "READ_WRITE">>, <<1051, "uint16", "READ_WRITE">>
  >>

\* registers.py, lines 11-227: the addresses of the module-level REG_*
\* constants, in the order of their definition.
REG_Addresses ==
  <<
    1, 2, 3, 4, 5, 6, 7, 8, 9, 10, 11, 12, 13, 15, 17, 18,
    39, 19, 20, 21, 22, 40, 41, 35, 23, 25, 36, 38, 44, 27, 28, 42,
    29, 30, 31, 32, 33, 100, 102, 104, 105, 106, 108, 110, 111, 112, 114, 116,
    117, 118, 120, 122, 123, 124, 126, 128, 129, 130, 131, 133, 135, 136, 137, 138,
    140, 142, 143, 144, 145, 157, 158, 146, 147, 148, 149, 151, 153, 154, 155, 156,
    200, 201, 202, 203, 204, 217, 205, 206, 207, 208, 209, 210, 211, 212, 213, 214,
    215, 216, 600, 601, 602, 603, 604, 605, 606, 607, 608, 609, 610, 900, 901, 902,
    903, 904, 905, 906, 908, 910, 911, 912, 913, 914, 915, 916, 917, 918, 919, 920,
    952, 953, 955, 956, 957, 961, 921, 922, 923, 924, 925, 926, 927, 929, 931, 933,
    935, 937, 939, 941, 943, 945, 946, 947, 948, 949, 950, 951, 954, 958, 959, 960,
    1000, 1002, 1004, 1050, 1051
  >>

\* Address, datatype and access of a catalog entry (registers2.py, Registers.__init__).
Addr(entry) == entry[1]

Datatype(entry) == entry[2]

Access(entry) == entry[3]

Addresses(catalog) == { Addr(catalog[i]) : i \in DOMAIN catalog }

\* Addresses of the catalog entries declared Access.READ_ONLY.
ReadOnlyRegisters(catalog) ==
  { Addr(catalog[i]) : i \in { j \in DOMAIN catalog : Access(catalog[j]) = "READ_ONLY" } }

Classified(reg) ==
  \/ reg \in REGISTERS_16BIT_UNSIGNED
  \/ reg \in REGISTERS_16BIT_SIGNED
  \/ reg \in REGISTERS_32BIT_UNSIGNED

(***************************************************************************)
(* Wire codec arithmetic, as modbus.py computes it.                        *)
(***************************************************************************)

RECURSIVE Pow2(_)
Pow2(n) == IF n = 0 THEN 1 ELSE 2 * Pow2(n - 1)

\* Python's  x >> n  (floor division by 2^n, also for negative x).
ShiftRight(x, n) == x \div Pow2(n)

\* Python's  x << n.
ShiftLeft(x, n) == x * Pow2(n)

\* Python's  a & mask  for a non-negative mask below 2^bits: bit by bit over
\* the low bits of a (two's complement for a negative a).
RECURSIVE BitAndLow(_, _, _)
BitAndLow(a, mask, bits) ==
  IF bits = 0 THEN 0
  ELSE (IF (a % 2 = 1) /\ (mask % 2 = 1) THEN 1 ELSE 0)
       + 2 * BitAndLow(a \div 2, mask \div 2, bits - 1)

WORD_MASK == 65535

And16(a) == BitAndLow(a, WORD_MASK, 16)

\* modbus.py:70   value - (value >> 15 << 16)
DecodeInt16Mutant(value) == value - ShiftLeft(ShiftRight(value, 16), 16)

DecodeInt16(value) == value - ShiftLeft(ShiftRight(value, 15), 16)

\* modbus.py:97   value & 0xFFFF
EncodeInt16Mutant(value) == IF value < 0 THEN 0 - value ELSE value

EncodeInt16(value) == And16(value)

\* modbus.py:78   (value << 16) + block[reg + 1]
DecodeUint32(high, low) == ShiftLeft(high, 16) + low

\* modbus.py:101-102   [(value >> 16) & 0xFFFF, value & 0xFFFF]
EncodeUint32LowFirst(value) == << And16(value), And16(ShiftRight(value, 16)) >>

EncodeUint32(value) == << And16(ShiftRight(value, 16)), And16(value) >>

(***************************************************************************)
(* State.                                                                  *)
(***************************************************************************)
VARIABLES
  \* KomfoventModbusClient._lock (asyncio.Lock): _locked, _waiters, and the
  \* waiters whose future release() has resolved.
  locked, waiters, futDone,
  \* Each caller's position in read / write and its operation in progress.
  pc, op,
  \* The number of operations that reached the gate so far, the callers in
  \* the order their requests were handed to the transport, the callers
  \* whose operation ended without a request, the latest request and the
  \* latest outcome of a read / write.
  issued, wire, noWire, request, result,
  \* KomfoventCoordinator: the configured protocol and the identity; the poll
  \* cycle in progress (its position, the registers to read, the mapping and
  \* the registers requested so far, how the latest read ended and the
  \* number of words its response held, the
  \* optional registers whose failure was logged); how the latest connect or cycle ended, and the mapping the
  \* latest successful cycle returned.
  connected, protocol, controller, func_version,
  cyc, regs, idx, data, requests, readStatus, readWords, logged, outcome, snapshot,
  \* Codec inputs and outputs.
  cop, cin, cword, cout,
  \* Who issued each operation: the poll cycle or another caller.
  owner

clientVars == << locked, waiters, futDone, pc, op, issued, wire, noWire, request, result >>

pollVars == << connected, protocol, controller, func_version,
               cyc, regs, idx, data, requests, readStatus, readWords, logged, outcome,
               snapshot >>

codecVars == << cop, cin, cword, cout >>

cycleVars == << owner >>

vars == << clientVars, pollVars, codecVars, cycleVars >>

(***************************************************************************)
(* Bounds.                                                                 *)
(***************************************************************************)
\* Caller c issues the c-th operation to reach the gate; up to MaxOps
\* operations are in progress at once.
MaxOps == 3

Callers == 1..MaxOps

\* The catalog entry at address a.
Entry(catalog, a) ==
  catalog[CHOOSE i \in DOMAIN catalog : Addr(catalog[i]) = a]

\* Registers the callers of Spec use: REG_POWER (16-bit unsigned),
\* REG_AWAY_TEMP (16-bit signed), REG_MAX_SUPPLY_FLOW (32-bit),
\* C4 DAY_OF_THE_WEEK (in no classification set) and C4 MONTH_DAY
\* (READ_ONLY; its number is in REGISTERS_32BIT_UNSIGNED).
ClientRegs ==
  { Entry(C6_Registers, 1), Entry(C6_Registers, 104), Entry(C6_Registers, 13),
    Entry(C4_Registers, 1003), Entry(C4_Registers, 1004) }

ReadCounts == {1, 2}

WriteValues == {-1, 70000}

RawWords == {65535}

NoOp == [id |-> 0, kind |-> "none", register |-> 0, access |-> "none", arg |-> 0]

NoRequest ==
  [id |-> 0, fn |-> "none", address |-> 0, values |-> << >>,
   register |-> 0, access |-> "none"]

NoResult == [id |-> 0, status |-> "none", data |-> << >>, transport |-> "none"]

ClientInit ==
  /\ locked = FALSE
  /\ waiters = << >>
  /\ futDone = {}
  /\ pc = [c \in Callers |-> "idle"]
  /\ op = [c \in Callers |-> NoOp]
  /\ issued = 0
  /\ owner = [c \in Callers |-> "none"]
  /\ wire = << >>
  /\ noWire = {}
  /\ request = NoRequest
  /\ result = NoResult

PollIdle ==
  /\ connected = FALSE
  /\ protocol = "auto"
  /\ controller = "NA"
  /\ func_version = 0
  /\ cyc = "idle"
  /\ regs = << >>
  /\ idx = 0
  /\ data = << >>
  /\ requests = << >>
  /\ readStatus = "none"
  /\ readWords = 0
  /\ logged = {}
  /\ outcome = "none"
  /\ snapshot = << >>

CodecIdle ==
  /\ cop = "none"
  /\ cin = 0
  /\ cword = 0
  /\ cout = 0

(***************************************************************************)
(* KomfoventModbusClient (modbus.py).                                      *)
(***************************************************************************)

\* asyncio.Lock.acquire takes the lock at once only when it is free and
\* nobody waits for it.
CanAcquireNoGate == TRUE

CanAcquireIgnoringWaiters == ~locked

CanAcquire == (~locked) /\ (waiters = << >>)

\* asyncio.Lock.release wakes the first waiter.
NextWaiterLast(ws) == ws[Len(ws)]

NextWaiter(ws) == Head(ws)

\* async with self._lock: leaving the block (normally or by an exception)
\* releases the lock and resolves the future of the first waiter of ws.
ReleaseLock(ws, fd) ==
  /\ locked' = FALSE
  /\ futDone' = IF ws = << >> THEN fd ELSE fd \cup {NextWaiter(ws)}

\* The request a read or write hands to the transport once it holds the lock.
\*   read:  read_holding_registers(address=register - 1, count=count)
\*   write: write_register(register - 1, value)           16-bit unsigned
\*          write_register(register - 1, value & 0xFFFF)  16-bit signed
\*          write_registers(address=register - 1, values=[high, low])  32-bit
\*          none (NotImplementedError) for an unclassified register
WriteRequestSingleWord(o) ==
  [id |-> o.id, fn |-> "write_register", address |-> o.register - 1,
   values |-> << And16(ShiftRight(o.arg, 16)) >>, register |-> o.register,
   access |-> o.access]

WriteRequest(o) ==
  IF o.register \in REGISTERS_16BIT_UNSIGNED
    THEN [id |-> o.id, fn |-> "write_register", address |-> o.register - 1,
          values |-> << o.arg >>, register |-> o.register, access |-> o.access]
  ELSE IF o.register \in REGISTERS_16BIT_SIGNED
    THEN [id |-> o.id, fn |-> "write_register", address |-> o.register - 1,
          values |-> << EncodeInt16(o.arg) >>, register |-> o.register, access |-> o.access]
  ELSE [id |-> o.id, fn |-> "write_registers", address |-> o.register - 1,
        values |-> EncodeUint32(o.arg), register |-> o.register, access |-> o.access]

ReadRequest(o) ==
  [id |-> o.id, fn |-> "read_holding_registers", address |-> o.register - 1,
   values |-> << o.arg >>, register |-> o.register, access |-> o.access]

\* write raises NotImplementedError, inside the lock, before any request.
WriteRejected(o) == o.kind = "write" /\ ~Classified(o.register)

\* The body of  async with self._lock  up to its first await, entered by
\* caller c as it takes the lock (ws, fd: the queue and the resolved futures
\* without c): either the request goes out and c waits for the response, or
\* write raises and the lock is released again.
EnterLockedHoldingOnRaise(c, o, ws, fd) ==
  IF WriteRejected(o)
    THEN /\ locked' = TRUE
         /\ futDone' = fd
         /\ pc' = [pc EXCEPT ![c] = "done"]
         /\ op' = [op EXCEPT ![c] = NoOp]
         /\ result' = [id |-> o.id, status |-> "NotImplementedError", data |-> << >>,
                     transport |-> "none"]
         /\ noWire' = noWire \cup {[id |-> c, kind |-> o.kind, register |-> o.register]}
         /\ UNCHANGED << wire, request >>
    ELSE /\ locked' = TRUE
         /\ futDone' = fd
         /\ pc' = [pc EXCEPT ![c] = "inflight"]
         /\ op' = [op EXCEPT ![c] = o]
         /\ wire' = Append(wire, c)
         /\ request' = (IF o.kind = "read" THEN ReadRequest(o) ELSE WriteRequest(o))
         /\ UNCHANGED << noWire, result >>

EnterLocked(c, o, ws, fd) ==
  IF WriteRejected(o)
    THEN /\ ReleaseLock(ws, fd)
         /\ pc' = [pc EXCEPT ![c] = "done"]
         /\ op' = [op EXCEPT ![c] = NoOp]
         /\ result' = [id |-> o.id, status |-> "NotImplementedError", data |-> << >>,
                     transport |-> "none"]
         /\ noWire' = noWire \cup {[id |-> c, kind |-> o.kind, register |-> o.register]}
         /\ UNCHANGED << wire, request >>
    ELSE /\ locked' = TRUE
         /\ futDone' = fd
         /\ pc' = [pc EXCEPT ![c] = "inflight"]
         /\ op' = [op EXCEPT ![c] = o]
         /\ wire' = Append(wire, c)
         /\ request' = (IF o.kind = "read" THEN ReadRequest(o) ELSE WriteRequest(o))
         /\ UNCHANGED << noWire, result >>

\* The operations callers issue: read(register, count) and
\* write(register, value).
Ops ==
  { [kind |-> "read", register |-> Addr(e), access |-> Access(e), arg |-> n] :
      e \in ClientRegs, n \in ReadCounts }
    \cup { [kind |-> "write", register |-> Addr(e), access |-> Access(e), arg |-> v] :
             e \in ClientRegs, v \in WriteValues }

\* Caller c, the next to call, calls operation o, read(register, count) or
\* write(register, value), and reaches  async with self._lock . With the
\* lock free it runs on to the request; otherwise it queues behind the
\* earlier waiters.
Arrive(c, o) ==
  /\ pc[c] = "idle"
  /\ c = issued + 1
  /\ issued' = c
  /\ LET new == [id |-> c, kind |-> o.kind, register |-> o.register,
                 access |-> o.access, arg |-> o.arg]
     IN IF CanAcquire
          THEN /\ EnterLocked(c, new, waiters, futDone)
               /\ waiters' = waiters
          ELSE /\ waiters' = Append(waiters, c)
               /\ pc' = [pc EXCEPT ![c] = "waiting"]
               /\ op' = [op EXCEPT ![c] = new]
               /\ UNCHANGED << locked, futDone, wire, noWire, request, result >>

Call(c) ==
  /\ \E o \in Ops : Arrive(c, o)
  /\ UNCHANGED << pollVars, codecVars, cycleVars >>

\* A waiter whose future was resolved resumes: it leaves the queue, takes
\* the lock and runs on to its request.
Wake(c) ==
  /\ pc[c] = "waiting"
  /\ c \in futDone
  /\ LET rest == SelectSeq(waiters, LAMBDA w : w # c)
     IN /\ waiters' = rest
        /\ EnterLocked(c, op[c], rest, futDone \ {c})
  /\ UNCHANGED issued

Resume(c) == Wake(c) /\ UNCHANGED << pollVars, codecVars, cycleVars >>

\* read, lines 57-87: the mapping decoded from the words of a response to
\* read(register, count), or the exception the decoding raises.
ReadDecodeSkipping(register, words) ==
  LET last == register + Len(words) - 1
      block == [r \in register..last |-> words[r - register + 1]]
      is32(r) == /\ r \notin REGISTERS_16BIT_UNSIGNED
                 /\ r \notin REGISTERS_16BIT_SIGNED
                 /\ r \in REGISTERS_32BIT_UNSIGNED
      value(r) == IF r \in REGISTERS_16BIT_UNSIGNED THEN block[r]
                  ELSE IF r \in REGISTERS_16BIT_SIGNED THEN DecodeInt16(block[r])
                  ELSE DecodeUint32(block[r], block[r + 1])
  IN IF \E r \in DOMAIN block : is32(r) /\ (r + 1) \notin DOMAIN block
       THEN [status |-> "ValueError", data |-> << >>]
     ELSE [status |-> "ok",
           data |-> [r \in { q \in DOMAIN block : Classified(q) } |-> value(r)]]

ReadDecodeAssumingLowWord(register, words) ==
  LET last == register + Len(words) - 1
      block == [r \in register..last |-> words[r - register + 1]]
      is32(r) == /\ r \notin REGISTERS_16BIT_UNSIGNED
                 /\ r \notin REGISTERS_16BIT_SIGNED
                 /\ r \in REGISTERS_32BIT_UNSIGNED
      converted == { r \in DOMAIN block : Classified(r) }
                     \cup { r + 1 : r \in { q \in DOMAIN block : is32(q) } }
      value(r) == IF r \in REGISTERS_16BIT_UNSIGNED THEN block[r]
                  ELSE IF r \in REGISTERS_16BIT_SIGNED THEN DecodeInt16(block[r])
                  ELSE DecodeUint32(block[r], IF (r + 1) \in DOMAIN block THEN block[r + 1] ELSE 0)
  IN IF FALSE
       THEN [status |-> "ValueError", data |-> << >>]
     ELSE IF (DOMAIN block) \ converted # {}
       THEN [status |-> "NotImplementedError", data |-> << >>]
     ELSE [status |-> "ok",
           data |-> [r \in { q \in DOMAIN block : Classified(q) } |-> value(r)]]

ReadDecode(register, words) ==
  LET last == register + Len(words) - 1
      block == [r \in register..last |-> words[r - register + 1]]
      is32(r) == /\ r \notin REGISTERS_16BIT_UNSIGNED
                 /\ r \notin REGISTERS_16BIT_SIGNED
                 /\ r \in REGISTERS_32BIT_UNSIGNED
      converted == { r \in DOMAIN block : Classified(r) }
                     \cup { r + 1 : r \in { q \in DOMAIN block : is32(q) } }
      value(r) == IF r \in REGISTERS_16BIT_UNSIGNED THEN block[r]
                  ELSE IF r \in REGISTERS_16BIT_SIGNED THEN DecodeInt16(block[r])
                  ELSE DecodeUint32(block[r], block[r + 1])
  IN IF \E r \in DOMAIN block : is32(r) /\ (r + 1) \notin DOMAIN block
       THEN [status |-> "ValueError", data |-> << >>]
     ELSE IF (DOMAIN block) \ converted # {}
       THEN [status |-> "NotImplementedError", data |-> << >>]
     ELSE [status |-> "ok",
           data |-> [r \in { q \in DOMAIN block : Classified(q) } |-> value(r)]]

\* What the transport call can end in: a response, an error response
\* (result.isError()), or an exception raised by the transport.
TransportOutcomes == {"ok", "error", "ModbusException", "ConnectionError"}

\* The words a device may hold at an address. The model keeps the high
\* word of a 32-bit register below 2^15, so that the decoded value stays
\* within 32-bit integers.
DeviceWords(r) == IF r \in REGISTERS_32BIT_UNSIGNED THEN {1} ELSE RawWords

RECURSIVE ResponseWords(_, _)
ResponseWords(register, n) ==
  IF n = 0 THEN { << >> }
  ELSE { Append(s, w) : s \in ResponseWords(register, n - 1),
                        w \in DeviceWords(register + n - 1) }

\* The outcome of read / write for caller c, after the lock is released;
\* transport records what the transport call ended in.
CompletionIgnoringError(o, t, words) ==
  IF t \in {"ModbusException", "ConnectionError"}
    THEN [id |-> o.id, status |-> t, data |-> << >>, transport |-> t]
  ELSE IF o.kind = "write"
    THEN [id |-> o.id, status |-> "ok", data |-> << >>, transport |-> t]
  ELSE LET d == ReadDecode(o.register, words)
       IN [id |-> o.id, status |-> d.status, data |-> d.data, transport |-> t]

Completion(o, t, words) ==
  IF t \in {"ModbusException", "ConnectionError"}
    THEN [id |-> o.id, status |-> t, data |-> << >>, transport |-> t]
  ELSE IF t = "error"
    THEN [id |-> o.id, status |-> "ModbusException", data |-> << >>, transport |-> t]
  ELSE IF o.kind = "write"
    THEN [id |-> o.id, status |-> "ok", data |-> << >>, transport |-> t]
  ELSE LET d == ReadDecode(o.register, words)
       IN [id |-> o.id, status |-> d.status, data |-> d.data, transport |-> t]

\* The response to c's request arrives (or the transport raises): the
\* async with  block is left, the lock released and the first waiter
\* woken; then the result is checked and, for a read, decoded.
Respond(c) ==
  /\ pc[c] = "inflight"
  /\ \E t \in TransportOutcomes :
       \E words \in (IF t = "ok" /\ op[c].kind = "read"
                        THEN ResponseWords(op[c].register, op[c].arg)
                        ELSE { << >> }) :
         result' = Completion(op[c], t, words)
  /\ ReleaseLock(waiters, futDone)
  /\ pc' = [pc EXCEPT ![c] = "done"]
  /\ op' = [op EXCEPT ![c] = NoOp]
  /\ UNCHANGED << waiters, issued, wire, noWire, request >>

Response(c) == Respond(c) /\ UNCHANGED << pollVars, codecVars, cycleVars >>

ClientNext == \E c \in Callers : Call(c) \/ Resume(c) \/ Response(c)

Init == ClientInit /\ PollIdle /\ CodecIdle

Next == ClientNext

Spec == Init /\ [][Next]_vars

(***************************************************************************)
(* KomfoventCoordinator (coordinator.py).                                  *)
(***************************************************************************)
FUNC_VER_AQ_HUMIDITY == 38

FUNC_VER_EXHAUST_TEMP == 67

\* const.py, ConnectedPanels.
PANEL1 == 1

PANEL2 == 2

BOTH == 3

REG_CONNECTED_PANELS == 954

REG_EXHAUST_TEMP == 961

REG_FIRMWARE == 1000

REG_PANEL1_FW == 1002

REG_PANEL2_FW == 1004

Protocols == {"auto", "C4"}

\* The identities a firmware register can decode to: every firmware-reporting
\* controller, with functional versions on both sides of both thresholds.
FuncVersions ==
  { FUNC_VER_AQ_HUMIDITY - 1, FUNC_VER_AQ_HUMIDITY,
    FUNC_VER_EXHAUST_TEMP - 1, FUNC_VER_EXHAUST_TEMP }

FirmwareVersions == [controller : {"C6", "C6M", "C8", "NA"}, func_version : FuncVersions]

\* The values the connected-panels register may hold.
PanelWords == 0..3

\* register.sublist(n): the catalog's registers at the n addresses from
\* start on, ascending.
RECURSIVE SublistFrom(_, _, _)
SublistFrom(addresses, a, last) ==
  IF a > last THEN << >>
  ELSE (IF a \in addresses THEN << a >> ELSE << >>) \o SublistFrom(addresses, a + 1, last)

Sublist(catalog, start, n) == SublistFrom(Addresses(catalog), start, start + n - 1)

\* The width in words of a catalog entry's datatype.
Words(entry) == IF Datatype(entry) \in {"uint32", "int32"} THEN 2 ELSE 1

\* _async_update_data_C6, lines 121-128 and 137-144: the gate of the narrow
\* eco / air-quality and monitoring blocks.
NarrowBlocksAnyFamily(ctrl, fv) == fv < FUNC_VER_AQ_HUMIDITY

NarrowBlocks(ctrl, fv) == ctrl \in {"C6", "C6M"} /\ fv < FUNC_VER_AQ_HUMIDITY

\* _async_update_data_C6, lines 153-156: the gate of the exhaust temperature.
ReadsExhaustTempAnyFamily(ctrl, fv) == fv >= FUNC_VER_EXHAUST_TEMP

ReadsExhaustTemp(ctrl, fv) == ctrl \in {"C6", "C6M"} /\ fv >= FUNC_VER_EXHAUST_TEMP

\* _async_update_data_C6, lines 169-172 and 181-184: the panel gates, on the
\* cycle's own data.
PanelsValue(d) == IF REG_CONNECTED_PANELS \in DOMAIN d THEN d[REG_CONNECTED_PANELS] ELSE 0

ReadsPanel1Stale(d) == PanelsValue(snapshot) \in {PANEL1, BOTH}

ReadsPanel1(d) == PanelsValue(d) \in {PANEL1, BOTH}

ReadsPanel2(d) == PanelsValue(d) \in {PANEL2, BOTH}

EcoBlock(ctrl, fv) ==
  IF NarrowBlocks(ctrl, fv) THEN Sublist(C6_Registers, 200, 15)
  ELSE Sublist(C6_Registers, 200, 18)

MonitoringBlock(ctrl, fv) ==
  IF NarrowBlocks(ctrl, fv) THEN Sublist(C6_Registers, 900, 56)
  ELSE Sublist(C6_Registers, 900, 58)

\* _async_update_data_C6, lines 109-147: the mandatory registers, in order.
MandatoryC6AlarmsFirst(ctrl, fv) ==
  Sublist(C6_Registers, 600, 11) \o Sublist(C6_Registers, 1, 34)
    \o Sublist(C6_Registers, 100, 59) \o EcoBlock(ctrl, fv) \o MonitoringBlock(ctrl, fv)

MandatoryC6(ctrl, fv) ==
  Sublist(C6_Registers, 1, 34) \o Sublist(C6_Registers, 100, 59)
    \o EcoBlock(ctrl, fv) \o Sublist(C6_Registers, 600, 11) \o MonitoringBlock(ctrl, fv)

\* _async_update_data_C4, lines 93-100.
MandatoryC4 ==
  Sublist(C4_Registers, 1000, 13) \o Sublist(C4_Registers, 1100, 2)
    \o Sublist(C4_Registers, 1102, 1)

\* The catalog of the path the coordinator polls.
PollCatalog == IF controller = "C4" THEN C4_Registers ELSE C6_Registers

\* The words a device may answer a read of register r with: its width in
\* words, or (a short response) one word less.
PollWords(r) == IF r = REG_CONNECTED_PANELS THEN PanelWords ELSE DeviceWords(r)

RECURSIVE PollResponse(_, _)
PollResponse(r, n) ==
  IF n = 0 THEN { << >> }
  ELSE { Append(s, w) : s \in PollResponse(r, n - 1), w \in PollWords(r + n - 1) }

PollResponses(r) ==
  LET n == Words(Entry(PollCatalog, r))
  IN PollResponse(r, n) \cup (IF n = 2 THEN PollResponse(r, 1) ELSE {})

\* self.client.read(register): the outcome of the read of one register, decoded
\* as read decodes it.
ReadOne(r, t, words) ==
  Completion([id |-> 0, kind |-> "read", register |-> r, access |-> "none",
              arg |-> Len(words)], t, words)

\* except (ConnectionError, ModbusException)  around each trailing read,
\* lines 159, 165, 175 and 187.
CaughtOptionalModbusOnly == {"ModbusException"}

CaughtOptional == {"ModbusException", "ConnectionError"}

\* connect, line 70: the identity is read from the device unless the
\* configured protocol is C4.
ProbesIdentityAlways(p) == TRUE

ProbesIdentity(p) == p # "C4"

\* except (ConnectionError, ModbusException)  in connect, line 82.
CaughtConnectNone == {}

CaughtConnect == {"ModbusException", "ConnectionError"}

\* except (ConnectionError, ModbusException)  in _async_update_data, line 205.
CaughtUpdateNone == {}

CaughtUpdate == {"ModbusException", "ConnectionError"}

PollInit ==
  /\ connected = FALSE
  /\ protocol \in Protocols
  /\ controller = "NA"
  /\ func_version = 0
  /\ cyc = "idle"
  /\ regs = << >>
  /\ idx = 0
  /\ data = << >>
  /\ requests = << >>
  /\ readStatus = "none"
  /\ readWords = 0
  /\ logged = {}
  /\ outcome = "none"
  /\ snapshot = << >>

\* connect(), lines 59-86. ok: what self.client.connect() returned.
Connect ==
  /\ ~connected
  /\ cyc = "idle"
  /\ \E ok \in BOOLEAN :
       IF ~ok
         THEN /\ outcome' = "ConfigEntryNotReady"
              /\ requests' = << >>
              /\ readStatus' = "none"
              /\ readWords' = 0
              /\ UNCHANGED << connected, controller, func_version >>
       ELSE IF ~ProbesIdentity(protocol)
         THEN /\ connected' = TRUE
              /\ controller' = "C4"
              /\ func_version' = 0
              /\ outcome' = "connected"
              /\ requests' = << >>
              /\ readStatus' = "none"
              /\ readWords' = 0
       ELSE /\ requests' = << REG_FIRMWARE >>
            /\ \E t \in TransportOutcomes : \E words \in PollResponses(REG_FIRMWARE) :
                 LET res == ReadOne(REG_FIRMWARE, t, words)
                 IN /\ readStatus' = res.status
                    /\ readWords' = (IF t = "ok" THEN Len(words) ELSE 0)
                    /\ IF res.status = "ok"
                         THEN \E fw \in FirmwareVersions :
                                /\ connected' = TRUE
                                /\ controller' = fw.controller
                                /\ func_version' = fw.func_version
                                /\ outcome' = "connected"
                         ELSE /\ outcome' = (IF res.status \in CaughtConnect
                                               THEN "ConfigEntryNotReady" ELSE res.status)
                              /\ UNCHANGED << connected, controller, func_version >>
  /\ UNCHANGED << protocol, cyc, regs, idx, data, logged, snapshot, clientVars, codecVars, cycleVars >>

\* _async_update_data, lines 194-203, up to the first read: the cycle starts
\* from an empty mapping and the list of the mandatory registers.
\* data = {}  (lines 91, 107 and 197): the mapping the cycle starts from; prev is the
\* mapping the previous cycle returned.
InitialDataFromPrevious(prev) == prev

InitialData(prev) == << >>

PollStart ==
  /\ connected
  /\ cyc = "idle"
  /\ cyc' = "mandatory"
  /\ regs' = (IF controller = "C4" THEN MandatoryC4
              ELSE MandatoryC6(controller, func_version))
  /\ idx' = 1
  /\ data' = InitialData(snapshot)
  /\ requests' = << >>
  /\ readStatus' = "none"
  /\ readWords' = 0
  /\ logged' = {}
  /\ outcome' = "none"
  /\ UNCHANGED << connected, protocol, controller, func_version, snapshot,
                  clientVars, codecVars, cycleVars >>

\* The cycle ends: with the mapping returned, or with the exception that
\* leaves _async_update_data (UpdateFailed for a caught one).
Return(d) ==
  /\ cyc' = "idle"
  /\ outcome' = "snapshot"
  /\ snapshot' = d
  /\ data' = d

Raise(status) ==
  /\ cyc' = "idle"
  /\ outcome' = (IF status \in CaughtUpdate THEN "UpdateFailed" ELSE status)
  /\ snapshot' = snapshot
  /\ data' = data

\* The optional read that follows phase ph, given the data read so far.
NextPhase(ph, d) ==
  IF ph = "mandatory" /\ ReadsExhaustTemp(controller, func_version) THEN "exhaust"
  ELSE IF ph \in {"mandatory", "exhaust"} THEN "firmware"
  ELSE IF ph = "firmware" /\ ReadsPanel1(d) THEN "panel1"
  ELSE IF ph \in {"firmware", "panel1"} /\ ReadsPanel2(d) THEN "panel2"
  ELSE "return"

Continue(ph, d) ==
  IF NextPhase(ph, d) = "return"
    THEN Return(d)
    ELSE /\ cyc' = NextPhase(ph, d)
         /\ data' = d
         /\ UNCHANGED << outcome, snapshot >>

\* One turn of  for register in regs: data.update({register: await read}) .
PollRead ==
  /\ cyc = "mandatory"
  /\ LET r == regs[idx]
     IN /\ requests' = Append(requests, r)
        /\ \E t \in TransportOutcomes : \E words \in PollResponses(r) :
             LET res == ReadOne(r, t, words)
                 d == (r :> res.data[r]) @@ data
             IN /\ readStatus' = res.status
                /\ readWords' = (IF t = "ok" THEN Len(words) ELSE 0)
                /\ IF res.status # "ok"
                     THEN Raise(res.status) /\ idx' = idx
                     ELSE IF idx < Len(regs)
                       THEN /\ idx' = idx + 1
                            /\ data' = d
                            /\ UNCHANGED << cyc, outcome, snapshot >>
                       ELSE IF controller = "C4"
                         THEN Return(d) /\ idx' = idx
                         ELSE Continue("mandatory", d) /\ idx' = idx
  /\ UNCHANGED << connected, protocol, controller, func_version, regs, logged,
                  clientVars, codecVars, cycleVars >>

OptionalRegister(ph) ==
  IF ph = "exhaust" THEN REG_EXHAUST_TEMP
  ELSE IF ph = "firmware" THEN REG_FIRMWARE
  ELSE IF ph = "panel1" THEN REG_PANEL1_FW
  ELSE REG_PANEL2_FW

\* One of the trailing reads, each in its own  try / except .
PollOptional ==
  /\ cyc \in {"exhaust", "firmware", "panel1", "panel2"}
  /\ LET r == OptionalRegister(cyc)
     IN /\ requests' = Append(requests, r)
        /\ \E t \in TransportOutcomes : \E words \in PollResponses(r) :
             LET res == ReadOne(r, t, words)
             IN /\ readStatus' = res.status
                /\ readWords' = (IF t = "ok" THEN Len(words) ELSE 0)
                /\ IF res.status = "ok"
                     THEN Continue(cyc, (r :> res.data[r]) @@ data) /\ logged' = logged
                     ELSE IF res.status \in CaughtOptional
                       THEN Continue(cyc, data) /\ logged' = logged \cup {r}
                       ELSE Raise(res.status) /\ logged' = logged
  /\ UNCHANGED << connected, protocol, controller, func_version, regs, idx,
                  clientVars, codecVars, cycleVars >>

PollNext == Connect \/ PollStart \/ PollRead \/ PollOptional

InitPoll == ClientInit /\ PollInit /\ CodecIdle

SpecPoll == InitPoll /\ [][PollNext]_vars


(***************************************************************************)
(* The codec of read and write, on its own: a value is drawn, handed to    *)
(* write's encoding and read's decoding for a register of                  *)
(* REGISTERS_16BIT_SIGNED or REGISTERS_32BIT_UNSIGNED, and the outcome     *)
(* recorded.                                                               *)
(***************************************************************************)
\* High and low words of the 32-bit values handed to write. The values stay
\* below 2^31, the largest integer TLC computes with.
HighWords == {0, 1, 255, 256, 32767}

LowWords == {0, 1, 255, 256, 32767, 32768, 65535}

Uint32Inputs == { ShiftLeft(h, 16) + l : h \in HighWords, l \in LowWords }

\* A raw word of a response, or a value a caller hands to write.
CodecInputs == ((0 - 32768)..65535) \cup Uint32Inputs

\* The registers the codec is exercised on: the lowest and the highest
\* number of REGISTERS_16BIT_SIGNED.
CodecRegisters ==
  { r \in REGISTERS_16BIT_SIGNED :
      \/ \A q \in REGISTERS_16BIT_SIGNED : r <= q
      \/ \A q \in REGISTERS_16BIT_SIGNED : r >= q }

InitCodec ==
  /\ ClientInit
  /\ PollIdle
  /\ cop = "none"
  /\ cin \in CodecInputs
  /\ cword = 0
  /\ cout = 0

\* The word write(register, value) puts on the wire.
WrittenWord(register, value) ==
  WriteRequest([id |-> 1, kind |-> "write", register |-> register,
                access |-> "READ_WRITE", arg |-> value]).values[1]

\* The value read returns for register when the device answers with word.
ReadBack(register, word) == ReadDecode(register, << word >>).data[register]

\* read of a 16-bit signed register whose response carries the word cin.
CodecDecode ==
  /\ cop = "none"
  /\ cin \in 0..65535
  /\ \E register \in CodecRegisters :
       /\ cword' = cin
       /\ cout' = ReadBack(register, cin)
  /\ cop' = "decode"
  /\ UNCHANGED << cin, clientVars, pollVars, cycleVars >>

\* write of cin to a 16-bit signed register, then a read of the same
\* register answered with the word that was written.
CodecRoundTrip ==
  /\ cop = "none"
  /\ cin \in (0 - 32768)..32767
  /\ \E register \in CodecRegisters :
       LET word == WrittenWord(register, cin)
       IN /\ cword' = word
          /\ cout' = ReadBack(register, word)
  /\ cop' = "roundtrip"
  /\ UNCHANGED << cin, clientVars, pollVars, cycleVars >>

\* write of cin to a 32-bit register, then a read of the register's two
\* addresses answered with the words that were written.
CodecRoundTrip32 ==
  /\ cop = "none"
  /\ cin \in Uint32Inputs
  /\ \E register \in REGISTERS_32BIT_UNSIGNED :
       LET words == WriteRequest([id |-> 1, kind |-> "write", register |-> register,
                                  access |-> "READ_WRITE", arg |-> cin]).values
       IN /\ cword' = words
          /\ cout' = ReadDecode(register, words).data[register]
  /\ cop' = "roundtrip32"
  /\ UNCHANGED << cin, clientVars, pollVars, cycleVars >>

CodecNext == CodecDecode \/ CodecRoundTrip \/ CodecRoundTrip32

SpecCodec == InitCodec /\ [][CodecNext]_vars


(***************************************************************************)
(* The catalogs and read's decoding of a block, on their own: a block      *)
(* read(register, count) answered in full is decoded, or the descriptors   *)
(* of a catalog at an address are looked up.                               *)
(***************************************************************************)
\* The first registers and the counts of the blocks read.
ReadStarts == 1..(REG_PANEL2_FW + 2)

BlockCounts == {1, 2, 3}

\* The addresses of the descriptors of a catalog, in the order of their
\* definition.
DescriptorAddresses(catalog) ==
  IF catalog = "C4" THEN [i \in DOMAIN C4_Registers |-> Addr(C4_Registers[i])]
  ELSE IF catalog = "C6" THEN [i \in DOMAIN C6_Registers |-> Addr(C6_Registers[i])]
  ELSE REG_Addresses

Catalogs == {"C4", "C6", "REG"}

\* The registers written (every classified register of the table) and the
\* values passed to write: in range, negative and over the width.
WrittenRegisters == { REG_Addresses[i] : i \in { j \in DOMAIN REG_Addresses : Classified(REG_Addresses[j]) } }

WrittenValues == {0 - 32769, 0 - 32768, 0 - 1, 0, 1, 32767, 65535, 65536, 70000}

CatalogInputs ==
  [kind : {"read"}, catalog : {"REG"}, register : ReadStarts, count : BlockCounts]
    \* tests/test_live_modbus.py, line 43: read(REG_POWER, 34).
    \cup { [kind |-> "read", catalog |-> "REG", register |-> 1, count |-> 34] }
    \cup { [kind |-> "lookup", catalog |-> k, register |-> a, count |-> 0] :
             k \in Catalogs,
             a \in Addresses(C4_Registers) \cup Addresses(C6_Registers) }
    \cup { [kind |-> "write", catalog |-> "REG", register |-> a, count |-> 0,
            value |-> v] :
             a \in WrittenRegisters, v \in WrittenValues }

InitCatalog ==
  /\ ClientInit
  /\ PollIdle
  /\ cop = "none"
  /\ cin \in CatalogInputs
  /\ cword = << >>
  /\ cout = << >>

\* read(register, count), answered with count words, decoded.
ReadBlock ==
  /\ cop = "none"
  /\ cin.kind = "read"
  /\ \E words \in ResponseWords(cin.register, cin.count) :
       /\ cword' = words
       /\ cout' = ReadDecode(cin.register, words)
  /\ cop' = "read"
  /\ UNCHANGED << cin, clientVars, pollVars, cycleVars >>

\* The descriptors of the catalog at an address.
Lookup ==
  /\ cop = "none"
  /\ cin.kind = "lookup"
  /\ LET addresses == DescriptorAddresses(cin.catalog)
     IN cout' = { i \in DOMAIN addresses : addresses[i] = cin.register }
  /\ cop' = "lookup"
  /\ UNCHANGED << cin, cword, clientVars, pollVars, cycleVars >>

\* write(register, value): the words handed to the transport.
WriteWords ==
  /\ cop = "none"
  /\ cin.kind = "write"
  /\ LET req == WriteRequest([id |-> 0, kind |-> "write", register |-> cin.register,
                              access |-> "none", arg |-> cin.value])
     IN /\ cword' = req.values
        /\ cout' = req
  /\ cop' = "write"
  /\ UNCHANGED << cin, clientVars, pollVars, cycleVars >>

CatalogNext == ReadBlock \/ Lookup \/ WriteWords

SpecCatalog == InitCatalog /\ [][CatalogNext]_vars


(***************************************************************************)
(* The entity and service operations that write to the unit:               *)
(* KomfoventClimate.async_set_temperature (climate.py) and                 *)
(* set_operation_mode (services.py). An optional value (None or a value)   *)
(* is a sequence of no or one element.                                     *)
(***************************************************************************)
SETPOINT_MIN_TEMP == 5

SETPOINT_MAX_TEMP == 40

DEFAULT_MODE_TIMER == 60

None == << >>

Some(v) == << v >>

\* bool(x) of an optional integer.
Truthy(x) == x # None /\ x[1] # 0

\* class OperationMode(IntEnum), const.py lines 50-63.
OperationMode ==
  [STANDBY |-> 0, AWAY |-> 1, NORMAL |-> 2, INTENSIVE |-> 3, BOOST |-> 4,
   KITCHEN |-> 5, FIREPLACE |-> 6, OVERRIDE |-> 7, HOLIDAY |-> 8,
   AIR_QUALITY |-> 9, OFF |-> 10]

\* MODE_TEMP_MAPPING, climate.py lines 203-215, by the value of the mode.
MODE_TEMP_MAPPING ==
  [m \in 0..10 |->
     IF m = OperationMode.AWAY THEN 104
     ELSE IF m = OperationMode.INTENSIVE THEN 116
     ELSE IF m = OperationMode.BOOST THEN 122
     ELSE IF m = OperationMode.KITCHEN THEN 128
     ELSE IF m = OperationMode.FIREPLACE THEN 135
     ELSE IF m = OperationMode.OVERRIDE THEN 142
     ELSE IF m = OperationMode.HOLIDAY THEN 147
     ELSE IF m = OperationMode.AIR_QUALITY THEN 206
     ELSE 110]

\* coordinator.data.get(key).
Get(d, key) == IF key \in DOMAIN d THEN Some(d[key]) ELSE None

\* async_set_temperature, lines 162-170: the setpoint register of the
\* current mode, REG_NORMAL_SETPOINT when the mode is no OperationMode.
TempRegister(d) ==
  LET mode == Get(d, 5)
  IN IF mode # None /\ mode[1] \in DOMAIN MODE_TEMP_MAPPING
       THEN MODE_TEMP_MAPPING[mode[1]]
       ELSE 110

\* if SETPOINT_MIN_TEMP <= temp <= SETPOINT_MAX_TEMP  (line 173); temp in
\* hundredths of a degree.
WithinSetpointBoundsNoMaximum(temp) == SETPOINT_MIN_TEMP * 100 <= temp

WithinSetpointBounds(temp) ==
  SETPOINT_MIN_TEMP * 100 <= temp /\ temp <= SETPOINT_MAX_TEMP * 100

\* int(temp * 10)  (line 174), temp in hundredths of a degree: truncation
\* towards zero.
RawSetpoint(temp) == IF temp >= 0 THEN temp \div 10 ELSE 0 - ((0 - temp) \div 10)

\* What client.write ends in for the entity or service.
WriteOutcomes == {"ok", "ConnectionError", "TimeoutError", "ModbusException"}

\* except (ConnectionError, TimeoutError)  (line 178).
CaughtSetTemperature == {"ConnectionError", "TimeoutError"}

\* The requested temperatures, in hundredths of a degree, and the snapshots
\* (restricted to the operation mode and the three timers).
Temperatures == {0 - 100, 0, 499, 500, 505, 2150, 3999, 4000, 4001, 4009, 10000}

StoredModes == 0..11

StoredTimers == {0, 30}

Snapshots ==
  { << >> }
    \cup { (5 :> m) : m \in StoredModes }
    \cup { (5 :> m) @@ (130 :> v) @@ (137 :> v) @@ (145 :> v) :
             m \in {OperationMode.NORMAL}, v \in StoredTimers }

\* The mode names a caller passes, and  mode.upper() .
ModeNames ==
  {"standby", "away", "normal", "intensive", "boost", "kitchen", "fireplace",
   "override", "holiday", "air_quality", "off", "Kitchen", "turbo", ""}

Upper(name) ==
  CASE name = "standby" -> "STANDBY"
    [] name = "away" -> "AWAY"
    [] name = "normal" -> "NORMAL"
    [] name = "intensive" -> "INTENSIVE"
    [] name = "boost" -> "BOOST"
    [] name \in {"kitchen", "Kitchen"} -> "KITCHEN"
    [] name = "fireplace" -> "FIREPLACE"
    [] name = "override" -> "OVERRIDE"
    [] name = "holiday" -> "HOLIDAY"
    [] name = "air_quality" -> "AIR_QUALITY"
    [] name = "off" -> "OFF"
    [] name = "turbo" -> "TURBO"
    [] OTHER -> ""

Minutes == {None, Some(0), Some(15), Some(0 - 5)}

\* OperationMode[name]  (line 43): the member, or KeyError.
LookupMode(name) ==
  IF name \in DOMAIN OperationMode
    THEN [status |-> "ok", mode |-> OperationMode[name]]
    ELSE [status |-> "KeyError", mode |-> 0 - 1]

\* except ValueError  (line 44).
CaughtLookupWithKeyError == {"ValueError", "KeyError"}

CaughtLookup == {"ValueError"}

\* minutes or coordinator.data.get(timer) or DEFAULT_MODE_TIMER
\* (lines 64-66, 71-73, 78-80).
TimerValueNoDefault(minutes, stored) ==
  IF Truthy(minutes) THEN minutes ELSE stored

TimerValue(minutes, stored) ==
  IF Truthy(minutes) THEN minutes
  ELSE IF Truthy(stored) THEN stored
  ELSE Some(DEFAULT_MODE_TIMER)

\* The write set_operation_mode issues for a mode (lines 48-84): none for a
\* mode it does not support.
ModeWrite(mode, minutes, d) ==
  IF mode = OperationMode.OFF THEN << [register |-> 1, value |-> Some(0)] >>
  ELSE IF mode = OperationMode.AIR_QUALITY THEN << [register |-> 4, value |-> Some(1)] >>
  ELSE IF mode \in {OperationMode.AWAY, OperationMode.NORMAL,
                    OperationMode.INTENSIVE, OperationMode.BOOST}
    THEN << [register |-> 5, value |-> Some(mode)] >>
  ELSE IF mode = OperationMode.KITCHEN
    THEN << [register |-> 130, value |-> TimerValue(minutes, Get(d, 130))] >>
  ELSE IF mode = OperationMode.FIREPLACE
    THEN << [register |-> 137, value |-> TimerValue(minutes, Get(d, 137))] >>
  ELSE IF mode = OperationMode.OVERRIDE
    THEN << [register |-> 145, value |-> TimerValue(minutes, Get(d, 145))] >>
  ELSE << >>

ServiceInputs ==
  [kind : {"set_temperature"}, temp : {None} \cup { Some(t) : t \in Temperatures },
   name : {""}, minutes : {None}, snapshot : Snapshots]
    \cup [kind : {"set_operation_mode"}, temp : {None},
          name : ModeNames, minutes : Minutes, snapshot : Snapshots]

\* cin: the call; cword: the writes handed to client.write; cout: how the
\* call ended, whether it logged a warning, whether it requested a refresh.
InitService ==
  /\ ClientInit
  /\ PollIdle
  /\ cop = "none"
  /\ cin \in ServiceInputs
  /\ cword = << >>
  /\ cout = << >>

Ended(status, warned, refresh) ==
  [status |-> status, warned |-> warned, refresh |-> refresh]

\* KomfoventClimate.async_set_temperature, climate.py lines 156-188.
SetTemperature ==
  /\ cop = "none"
  /\ cin.kind = "set_temperature"
  /\ cop' = "set_temperature"
  /\ IF cin.temp = None
       THEN cword' = << >> /\ cout' = Ended("returned", FALSE, FALSE)
     ELSE IF ~WithinSetpointBounds(cin.temp[1])
       THEN cword' = << >> /\ cout' = Ended("returned", TRUE, FALSE)
     ELSE /\ cword' = << [register |-> TempRegister(cin.snapshot),
                          value |-> Some(RawSetpoint(cin.temp[1]))] >>
          /\ \E t \in WriteOutcomes :
               cout' = IF t = "ok" THEN Ended("returned", FALSE, TRUE)
                       ELSE IF t \in CaughtSetTemperature
                         THEN Ended("returned", FALSE, FALSE)
                       ELSE Ended(t, FALSE, FALSE)
  /\ UNCHANGED << cin, clientVars, pollVars, cycleVars >>

\* set_operation_mode, services.py lines 38-90.
SetOperationMode ==
  /\ cop = "none"
  /\ cin.kind = "set_operation_mode"
  /\ cop' = "set_operation_mode"
  /\ LET found == LookupMode(Upper(cin.name))
         writes == ModeWrite(found.mode, cin.minutes, cin.snapshot)
     IN IF found.status # "ok"
          THEN /\ cword' = << >>
               /\ cout' = IF found.status \in CaughtLookup
                            THEN Ended("returned", TRUE, FALSE)
                            ELSE Ended(found.status, FALSE, FALSE)
        ELSE IF writes = << >>
          THEN cword' = << >> /\ cout' = Ended("returned", TRUE, TRUE)
        ELSE /\ cword' = writes
             /\ \E t \in WriteOutcomes :
                  cout' = IF t = "ok" THEN Ended("returned", FALSE, TRUE)
                          ELSE Ended(t, FALSE, FALSE)
  /\ UNCHANGED << cin, clientVars, pollVars, cycleVars >>

ServiceNext == SetTemperature \/ SetOperationMode

SpecService == InitService /\ [][ServiceNext]_vars

(***************************************************************************)
(* The client under the scheduling the event loop gives: a task whose      *)
(* future was resolved is run (Resume), and a transport call returns or    *)
(* raises within the timeout of pymodbus (Response). The callers issue an  *)
(* operation of each exit path: a read, a write, and a write to a register *)
(* in no classification set.                                               *)
(***************************************************************************)
FairOps ==
  { o \in Ops : \/ (o.kind = "read" /\ o.register = 1 /\ o.arg = 1)
               \/ (o.kind = "write" /\ o.register \in {1, 1003} /\ o.arg = 0 - 1) }

FairCall(c) ==
  /\ \E o \in FairOps : Arrive(c, o)
  /\ UNCHANGED << pollVars, codecVars, cycleVars >>

FairNext == \E c \in Callers : FairCall(c) \/ Resume(c) \/ Response(c)

ClientFairness ==
  \A c \in Callers : WF_vars(Resume(c)) /\ WF_vars(Response(c))

SpecFair == Init /\ [][FairNext]_vars /\ ClientFairness

(***************************************************************************)
(* A poll cycle and another caller at the gate: the cycle reads its        *)
(* registers one after the other through client.read, each read taking and *)
(* releasing the lock, while another caller issues a write during the      *)
(* cycle.                                                                  *)
(***************************************************************************)
\* The registers of the cycle: the first of the mandatory list, one fewer
\* than there are operations.
CycleRegs == SubSeq(MandatoryC6("C6", FUNC_VER_EXHAUST_TEMP), 1, MaxOps - 1)

\* The writes of the other caller: to a register the cycle reads.
CycleWrites ==
  { [kind |-> "write", register |-> CycleRegs[i], access |-> "none", arg |-> v] :
      i \in DOMAIN CycleRegs, v \in {0, 1} }

PollOps == { c \in Callers : owner[c] = "poll" }

CallerOps == { c \in Callers : owner[c] = "caller" }

InitCycle ==
  /\ ClientInit
  /\ CodecIdle
  /\ connected = TRUE
  /\ protocol = "auto"
  /\ controller = "C6"
  /\ func_version = FUNC_VER_EXHAUST_TEMP
  /\ cyc = "idle"
  /\ regs = << >>
  /\ idx = 0
  /\ data = << >>
  /\ requests = << >>
  /\ readStatus = "none"
  /\ readWords = 0
  /\ logged = {}
  /\ outcome = "none"
  /\ snapshot = << >>

\* _async_update_data starts a cycle.
CycleStart ==
  /\ cyc = "idle"
  /\ outcome = "none"
  /\ cyc' = "mandatory"
  /\ regs' = CycleRegs
  /\ idx' = 1
  /\ data' = InitialData(snapshot)
  /\ UNCHANGED << connected, protocol, controller, func_version, requests, readStatus,
                  readWords, logged, outcome, snapshot, clientVars, codecVars, cycleVars >>

\* The cycle calls  await self.client.read(register)  for its next register.
CycleRead(c) ==
  /\ cyc = "mandatory"
  /\ Len(requests) = idx - 1
  /\ \A p \in PollOps : pc[p] = "done"
  /\ Arrive(c, [kind |-> "read", register |-> regs[idx], access |-> "none", arg |-> 1])
  /\ owner' = [owner EXCEPT ![c] = "poll"]
  /\ requests' = Append(requests, regs[idx])
  /\ UNCHANGED << connected, protocol, controller, func_version, cyc, regs, idx, data,
                  readStatus, readWords, logged, outcome, snapshot, codecVars >>

\* Another caller calls  client.write  while the cycle runs.
CycleWrite(c) ==
  /\ cyc = "mandatory"
  /\ CallerOps = {}
  /\ \E o \in CycleWrites : Arrive(c, o)
  /\ owner' = [owner EXCEPT ![c] = "caller"]
  /\ UNCHANGED << pollVars, codecVars >>

\* The response to c's request: for a read of the cycle the value joins the
\* mapping and the cycle goes on, returns after its last register, or ends
\* in the exception of the read.
CycleResponse(c) ==
  IF owner[c] # "poll"
    THEN Response(c)
    ELSE /\ Respond(c)
         /\ LET r == regs[idx]
            IN /\ readStatus' = result'.status
               /\ IF result'.status # "ok"
                    THEN Raise(result'.status) /\ idx' = idx
                    ELSE IF idx < Len(regs)
                      THEN /\ idx' = idx + 1
                           /\ data' = (r :> result'.data[r]) @@ data
                           /\ UNCHANGED << cyc, outcome, snapshot >>
                      ELSE Return((r :> result'.data[r]) @@ data) /\ idx' = idx
         /\ UNCHANGED << connected, protocol, controller, func_version, regs, requests,
                         readWords, logged, codecVars, cycleVars >>

CycleNext ==
  \/ CycleStart
  \/ \E c \in Callers : CycleRead(c) \/ CycleWrite(c) \/ Resume(c) \/ CycleResponse(c)

SpecCycle == InitCycle /\ [][CycleNext]_vars
(***************************************************************************)
(* Properties of the transport client (Spec).                              *)
(***************************************************************************)
InFlight == { c \in Callers : pc[c] = "inflight" }

Waiting == { c \in Callers : pc[c] = "waiting" }

WireSet == { wire[i] : i \in DOMAIN wire }

AllDone == issued > 0 /\ \A c \in 1..issued : pc[c] = "done"

WriteFns == {"write_register", "write_registers"}

\* C1: at every moment at most one request issued by the client is in
\* flight: the request of a read or write is handed to the transport only
\* when no other caller's request awaits its response.
C1_AtMostOneInFlight ==
  /\ Cardinality(InFlight) <= 1
  /\ \A c \in InFlight : locked /\ wire # << >> /\ wire[Len(wire)] = c
  /\ \A i \in DOMAIN wire : i < Len(wire) => pc[wire[i]] = "done"

\* C1 witness: a request is in flight while another caller, which arrived
\* during it, waits at the gate.
C1_Witness == InFlight # {} /\ Waiting # {}

\* C2 as stated: once the N operations issued have all ended, exactly N
\* requests were handed to the transport, in the order the callers reached
\* the gate.
C2_ExactlyNTransactionsFifo ==
  /\ \A i, j \in DOMAIN wire : i < j => wire[i] < wire[j]
  /\ AllDone => Len(wire) = issued

\* C2 amended: requests never overlap and go out in the order the callers
\* reached the gate (no caller is served while an earlier one waits), each
\* operation hands at most one request to the transport, and once all N
\* operations have ended every one of them produced exactly one request,
\* except the writes to a register in no classification set, which
\* produced none.
C2_FifoOneTransactionUnlessRejected ==
  /\ \A i, j \in DOMAIN wire : i < j => wire[i] < wire[j]
  /\ \A c \in Waiting : \A d \in WireSet : d < c
  /\ Cardinality(InFlight) <= 1
  /\ \A n \in noWire : /\ n.id \notin WireSet
                        /\ n.kind = "write"
                        /\ ~Classified(n.register)
  /\ AllDone => WireSet \cup { n.id : n \in noWire } = 1..issued

\* C2 witness: two requests have gone out in arrival order, the second is in
\* flight and a later caller waits at the gate.
C2_Witness == Len(wire) >= 2 /\ InFlight # {} /\ Waiting # {}

\* C3 as stated: a write to a register whose descriptor is READ_ONLY ends
\* in an access-denied error and no write request for such a register is
\* ever handed to the transport.
C3_ReadOnlyWriteDenied ==
  /\ (request.fn \in WriteFns) => request.access # "READ_ONLY"
  /\ \A c \in Callers :
       (op[c].kind = "write" /\ op[c].access = "READ_ONLY") => pc[c] # "inflight"

\* The number of requests handed to the transport for operation id.
Transactions(id) == Cardinality({ i \in DOMAIN wire : wire[i] = id })

\* The register is written as a 32-bit register (the third branch of write).
Is32(register) ==
  /\ register \notin REGISTERS_16BIT_UNSIGNED
  /\ register \notin REGISTERS_16BIT_SIGNED
  /\ register \in REGISTERS_32BIT_UNSIGNED

\* C12: a write to a 32-bit register is in flight as exactly one request, a
\* write_registers carrying both words [high, low]; it is never a
\* single-word write_register, and as no second request of the client is in
\* flight with it, nothing comes between the two words.
C12_Uint32WriteIsOneMultiWordRequest ==
  \A c \in InFlight :
     (op[c].kind = "write" /\ Is32(op[c].register)) =>
        /\ request.id = c
        /\ request.fn = "write_registers"
        /\ request.address = op[c].register - 1
        /\ request.values = << (op[c].arg \div 65536) % 65536, op[c].arg % 65536 >>
        /\ Transactions(c) = 1
        /\ InFlight = {c}

\* C12 witness: the write of 70000 to a 32-bit register is in flight as
\* write_registers [1, 4464] while another caller waits.
C12_Witness ==
  \E c \in InFlight :
     /\ op[c].kind = "write" /\ Is32(op[c].register) /\ op[c].arg = 70000
     /\ request.fn = "write_registers" /\ request.values = << 1, 4464 >>
     /\ Waiting # {}

\* C20: when the device answers the request of a read or a write with an
\* error response, the call ends in ModbusException, with no value, after
\* exactly one request for that call; no operation ever has a second request.
C20_ErrorResponseRaisesAfterOneRequest ==
  /\ (result.transport = "error") =>
        /\ result.status = "ModbusException"
        /\ result.data = << >>
        /\ Transactions(result.id) = 1
  /\ \A c \in Callers : Transactions(c) <= 1

\* C20 witness: a write was answered with an error response and ended in
\* ModbusException, its request being the last one sent.
C20_Witness ==
  /\ result.transport = "error" /\ result.status = "ModbusException"
  /\ request.id = result.id /\ request.fn \in WriteFns
  /\ pc[result.id] = "done"

\* The request is for a descriptor of the C4 catalog: an address that only
\* C4_Registers has, or a READ_ONLY descriptor (C6_Registers has none).
LegacyRequest ==
  \/ request.register \notin Addresses(C6_Registers)
  \/ request.access = "READ_ONLY"

\* C17: every request for a register of the firmware-reporting (C6) family
\* uses wire address = catalog address - 1, and every request for a register
\* of the legacy (C4) family uses the register's value as the wire address.
C17_WireAddressByFamily ==
  (request.fn # "none") =>
     request.address = (IF LegacyRequest THEN request.register
                        ELSE request.register - 1)

(***************************************************************************)
(* Properties of the poll cycle (SpecPoll).                                *)
(***************************************************************************)
RegSet == { regs[i] : i \in DOMAIN regs }

ReqSet == { requests[i] : i \in DOMAIN requests }

\* The trailing (optional) registers requested in the cycle.
OptionalRequested == { requests[i] : i \in { j \in DOMAIN requests : j > Len(regs) } }

C6Path == connected /\ controller # "C4"

\* The cycle has ended (and no other has started).
CycleEnded == cyc = "idle" /\ regs # << >>

\* The cycle ended in a failed read of a mandatory register.
MandatoryReadFailed == CycleEnded /\ readStatus # "ok" /\ Len(requests) <= Len(regs)

\* Every mandatory read of the cycle succeeded.
MandatoryDone ==
  regs # << >> /\ (Len(requests) > Len(regs) \/ (cyc = "idle" /\ outcome = "snapshot"))

DecodeFaults == {"ValueError", "NotImplementedError"}

\* C4 as stated: a C6-path cycle in which the read of a mandatory register
\* fails returns no mapping and ends in UpdateFailed.
C4_MandatoryFailureIsUpdateFailed ==
  (C6Path /\ MandatoryReadFailed) => outcome = "UpdateFailed"

\* C4 amended: a C6-path cycle in which the read of a mandatory register
\* fails returns no mapping: it ends in UpdateFailed when the read failed
\* with ConnectionError or ModbusException, and in the exception itself when
\* read raised a decode fault (ValueError, NotImplementedError); every
\* mapping a cycle returns holds all the mandatory registers.
C4_MandatoryFailureNoSnapshot ==
  /\ (C6Path /\ MandatoryReadFailed) =>
        /\ outcome # "snapshot"
        /\ (readStatus \in {"ModbusException", "ConnectionError"}) => outcome = "UpdateFailed"
        /\ (readStatus \in DecodeFaults) => outcome = readStatus
  /\ (C6Path /\ CycleEnded /\ outcome = "snapshot") => RegSet \subseteq DOMAIN snapshot

\* C4 witness: a C6-path cycle ended in UpdateFailed at a mandatory read,
\* after earlier registers had been read into the mapping.
C4_Witness ==
  /\ C6Path /\ MandatoryReadFailed /\ outcome = "UpdateFailed"
  /\ idx > 1 /\ DOMAIN data # {}

\* C5 as stated: a cycle whose mandatory reads all succeeded returns a
\* mapping, whatever the trailing reads end in, with every mandatory key
\* and exactly the trailing keys whose read succeeded.
C5_OptionalFailureNeverFailsCycle ==
  (C6Path /\ CycleEnded /\ Len(requests) > Len(regs)) =>
     /\ outcome = "snapshot"
     /\ DOMAIN snapshot = RegSet \cup (OptionalRequested \ logged)

\* C5 amended: a cycle whose mandatory reads all succeeded, and whose
\* trailing reads failed only with ConnectionError or ModbusException,
\* returns a mapping with every mandatory key and exactly the trailing keys
\* whose read succeeded; a decode fault of a trailing read ends the cycle in
\* that exception, with no mapping.
C5_OptionalTransportFailureOmitsKey ==
  (C6Path /\ CycleEnded /\ Len(requests) > Len(regs)) =>
     IF readStatus \in DecodeFaults
       THEN outcome = readStatus
       ELSE /\ outcome = "snapshot"
            /\ logged \subseteq OptionalRequested
            /\ DOMAIN snapshot = RegSet \cup (OptionalRequested \ logged)

\* C5 witness: a returned mapping of a cycle in which one trailing read
\* failed and another succeeded.
C5_Witness ==
  /\ C6Path /\ CycleEnded /\ outcome = "snapshot"
  /\ logged # {} /\ OptionalRequested \ logged # {}
  /\ DOMAIN snapshot = RegSet \cup (OptionalRequested \ logged)

\* The registers of the eco / air-quality area requested in the cycle.
EcoRequested == ReqSet \cap (200..217)

EcoNarrow == 200..214

EcoWide == 200..217

\* C6 as stated: whatever the controller family, a cycle of a device whose
\* functional version is below 38 requests the 15 registers from 200 and
\* none of 215..217, and one at or above 38 requests the 18 registers.
C6_EcoBlockByVersionOnly ==
  (C6Path /\ regs # << >>) =>
     IF func_version < 38
       THEN EcoRequested \subseteq EcoNarrow /\ (MandatoryDone => EcoRequested = EcoNarrow)
       ELSE MandatoryDone => EcoRequested = EcoWide

\* C6 amended: a cycle of a C6 or C6M controller whose functional version
\* is below 38 requests the 15 registers from 200 and none of 215..217;
\* every other C6-path identity (C6 or C6M at or above 38, and any other
\* family at any version) requests the 18 registers.
C6_EcoBlockByFamilyAndVersion ==
  (C6Path /\ regs # << >>) =>
     IF controller \in {"C6", "C6M"} /\ func_version < 38
       THEN EcoRequested \subseteq EcoNarrow /\ (MandatoryDone => EcoRequested = EcoNarrow)
       ELSE MandatoryDone => EcoRequested = EcoWide

\* C6 witness: a C6 controller below the threshold has read its mandatory
\* registers, with the 15-register block.
C6_Witness ==
  /\ C6Path /\ MandatoryDone /\ controller = "C6" /\ func_version < 38
  /\ EcoRequested = EcoNarrow

\* C7: register 961 is requested only by a C6 or C6M controller whose
\* functional version is at least 67; for every other identity it is never
\* requested and is no key of the mapping.
C7_ExhaustTempGate ==
  /\ (connected /\ REG_EXHAUST_TEMP \in ReqSet) =>
        (controller \in {"C6", "C6M"} /\ func_version >= 67)
  /\ (connected /\ ~(controller \in {"C6", "C6M"} /\ func_version >= 67)) =>
        /\ REG_EXHAUST_TEMP \notin DOMAIN data
        /\ REG_EXHAUST_TEMP \notin DOMAIN snapshot

\* C7 witness: a returned mapping holds the exhaust temperature.
C7_Witness ==
  /\ CycleEnded /\ outcome = "snapshot" /\ REG_EXHAUST_TEMP \in DOMAIN snapshot

\* The cycle has passed both panel gates.
PanelGatesPassed == C6Path /\ CycleEnded /\ outcome = "snapshot"

\* C8: a panel firmware register is requested only when register 954, as
\* read in this very cycle, says the panel is connected (PANEL1 or BOTH for
\* panel 1, PANEL2 or BOTH for panel 2), and a cycle that runs to its return
\* requests it whenever 954 says so; the mapping of an earlier cycle plays
\* no part.
C8_PanelGateOnThisCyclesData ==
  /\ (C6Path /\ REG_PANEL1_FW \in OptionalRequested) =>
        (REG_CONNECTED_PANELS \in DOMAIN data /\ data[REG_CONNECTED_PANELS] \in {1, 3})
  /\ (C6Path /\ REG_PANEL2_FW \in OptionalRequested) =>
        (REG_CONNECTED_PANELS \in DOMAIN data /\ data[REG_CONNECTED_PANELS] \in {2, 3})
  /\ PanelGatesPassed =>
        /\ (data[REG_CONNECTED_PANELS] \in {1, 3}) => REG_PANEL1_FW \in OptionalRequested
        /\ (data[REG_CONNECTED_PANELS] \in {2, 3}) => REG_PANEL2_FW \in OptionalRequested

\* C8 witness: the cycle is about to read panel 1's firmware because this
\* cycle read PANEL1, while the mapping of the cycle before says NONE.
C8_Witness ==
  /\ C6Path /\ cyc = "panel1"
  /\ data[REG_CONNECTED_PANELS] = PANEL1
  /\ REG_CONNECTED_PANELS \in DOMAIN snapshot /\ snapshot[REG_CONNECTED_PANELS] = 0

\* connect() has just returned True.
JustConnected == connected /\ outcome = "connected"

\* connect() has just failed.
ConnectFailed == ~connected /\ outcome \notin {"none", "connected"}

\* C18: a successful connect() under protocol C4 sets controller = C4 and
\* func_version = 0 and issues no read; under any other protocol it issues
\* exactly one read, of the firmware register, and sets controller and
\* func_version from it; once connected, no step (no poll cycle) changes
\* controller or func_version.
C18_IdentitySetOnceAtConnect ==
  /\ [](JustConnected =>
          IF protocol = "C4"
            THEN controller = "C4" /\ func_version = 0 /\ requests = << >>
            ELSE /\ requests = << REG_FIRMWARE >>
                 /\ readStatus = "ok"
                 /\ [controller |-> controller, func_version |-> func_version]
                      \in FirmwareVersions)
  /\ [][connected => (controller' = controller /\ func_version' = func_version)]_vars

\* C18 witness: a device identified at connect as C6M with functional
\* version 67 has completed a poll cycle with its identity unchanged.
C18_Witness ==
  /\ connected /\ protocol # "C4" /\ controller = "C6M" /\ func_version = 67
  /\ CycleEnded /\ outcome = "snapshot"

\* C19 as stated: a connect() that fails, because the transport connect
\* returned false or the firmware read failed, ends in ConfigEntryNotReady,
\* leaves controller and func_version as they were and is followed by no
\* register request.
C19_ConnectFailureIsNotReady ==
  ConnectFailed =>
     /\ outcome = "ConfigEntryNotReady"
     /\ controller = "NA" /\ func_version = 0
     /\ Len(requests) <= 1 /\ cyc = "idle"

\* C19 amended: a connect() that fails leaves controller and func_version
\* as they were and is followed by no register request; it ends in
\* ConfigEntryNotReady when the transport connect returned false or the
\* firmware read failed with ConnectionError or ModbusException, and in the
\* exception itself when the firmware read raised a decode fault.
C19_ConnectFailureAssignsNoIdentity ==
  ConnectFailed =>
     /\ controller = "NA" /\ func_version = 0
     /\ Len(requests) <= 1 /\ cyc = "idle"
     /\ IF readStatus \in DecodeFaults
          THEN outcome = readStatus
          ELSE outcome = "ConfigEntryNotReady"

\* C19 witness: the firmware read of connect() failed with ModbusException
\* and connect() ended in ConfigEntryNotReady without an identity.
C19_Witness ==
  /\ ConnectFailed /\ requests = << REG_FIRMWARE >> /\ readStatus = "ModbusException"
  /\ outcome = "ConfigEntryNotReady" /\ controller = "NA" /\ func_version = 0

(***************************************************************************)
(* Properties of the 16-bit signed codec (SpecCodec).                      *)
(***************************************************************************)
\* C9: for every raw word w in 0..65535 of a 16-bit signed register, read
\* returns w when w < 32768 and w - 65536 otherwise; 0x8000 decodes to
\* -32768 and 0xFFFF to -1.
C9_DecodeInt16TwosComplement ==
  (cop = "decode") =>
     /\ cout = (IF cword < 32768 THEN cword ELSE cword - 65536)
     /\ (cword = 32768) => (cout = 0 - 32768)
     /\ (cword = 65535) => (cout = 0 - 1)

\* C9 witness: the raw word 0x8000 has been decoded to -32768.
C9_Witness == cop = "decode" /\ cword = 32768 /\ cout = 0 - 32768

\* C10: for every v in -32768..32767 and every 16-bit signed register, the
\* word write transmits is a 16-bit word that read decodes to v again.
C10_Int16RoundTrip ==
  (cop = "roundtrip") => (cword \in 0..65535 /\ cout = cin)

\* C10 witness: -1 has been written as 0xFFFF and read back as -1.
C10_Witness == cop = "roundtrip" /\ cin = 0 - 1 /\ cword = 65535 /\ cout = 0 - 1

ReadRange == cin.register..(cin.register + cin.count - 1)

\* The range read holds an address in no classification set that is not the
\* low word of a 32-bit register of the range.
UnclassifiedInRange ==
  \E a \in ReadRange :
     /\ ~Classified(a)
     /\ ~((a - 1) \in ReadRange /\ Is32(a - 1))

\* C13: a read whose range holds an address in none of the three sets, not
\* the low word of a 32-bit register of the range, raises a decode fault and
\* returns no mapping.
C13_UnclassifiedAddressRaises ==
  (cop = "read" /\ UnclassifiedInRange) =>
     (cout.status \in DecodeFaults /\ cout.data = << >>)

\* C13 witness: a block of three addresses, some classified and one not, was
\* read and ended in NotImplementedError.
C13_Witness ==
  /\ cop = "read" /\ cin.count = 3 /\ UnclassifiedInRange
  /\ \E a \in ReadRange : Classified(a)
  /\ cout.status = "NotImplementedError"

\* The classification sets an address is a member of.
ClassesOf(a) ==
  { k \in {"u16", "s16", "u32"} :
      \/ k = "u16" /\ a \in REGISTERS_16BIT_UNSIGNED
      \/ k = "s16" /\ a \in REGISTERS_16BIT_SIGNED
      \/ k = "u32" /\ a \in REGISTERS_32BIT_UNSIGNED }

\* C14: the three classification sets are pairwise disjoint, and every
\* address a read decodes is a member of exactly one of them.
C14_ClassificationSetsDisjoint ==
  /\ REGISTERS_16BIT_UNSIGNED \cap REGISTERS_16BIT_SIGNED = {}
  /\ REGISTERS_16BIT_UNSIGNED \cap REGISTERS_32BIT_UNSIGNED = {}
  /\ REGISTERS_16BIT_SIGNED \cap REGISTERS_32BIT_UNSIGNED = {}
  /\ (cop = "read" /\ cout.status = "ok") =>
        \A a \in DOMAIN cout.data : Cardinality(ClassesOf(a)) = 1

\* C14 witness: a read decoded a 16-bit signed register to a negative value
\* next to a register of another set.
C14_Witness ==
  /\ cop = "read" /\ cout.status = "ok"
  /\ \E a, b \in DOMAIN cout.data :
        /\ a \in REGISTERS_16BIT_SIGNED /\ cout.data[a] < 0
        /\ b \notin REGISTERS_16BIT_SIGNED

\* C15: for every 32-bit register at address a, address a + 1 is in no
\* classification set and is the address of no descriptor, and no read
\* returns both a 32-bit value at a and a value at a + 1.
C15_LowWordIsNoDescriptor ==
  (cop = "read" /\ cout.status = "ok") =>
     \A a \in DOMAIN cout.data :
        Is32(a) => /\ ~Classified(a + 1)
                   /\ (a + 1) \notin Addresses(C6_Registers)
                   /\ (a + 1) \notin DOMAIN cout.data

\* C16: within each catalog (C4_Registers, C6_Registers, the REG_* table)
\* every address is positive and no two descriptors share an address.
C16_AddressesPositiveAndUnique ==
  /\ \A k \in Catalogs :
        \A i \in DOMAIN DescriptorAddresses(k) : DescriptorAddresses(k)[i] > 0
  /\ (cop = "lookup") => Cardinality(cout) <= 1


(***************************************************************************)
(* Properties of the poll cycle (SpecPoll), continued.                     *)
(***************************************************************************)
\* C21: the mapping of a cycle holds only keys read during that cycle: every
\* cycle starts from an empty mapping, so that while the cycle runs its
\* mapping holds requested registers only, and the mapping it returns is
\* that mapping, keyed by exactly the registers of this cycle whose read
\* succeeded, whatever the previous cycle returned.
C21_SnapshotHoldsOnlyKeysOfItsCycle ==
  /\ (cyc # "idle" \/ CycleEnded) => DOMAIN data \subseteq ReqSet
  /\ (CycleEnded /\ outcome = "snapshot") =>
        /\ snapshot = data
        /\ DOMAIN snapshot = ReqSet \ logged

\* C21 witness: the previous cycle returned a mapping with the panel-1
\* firmware; the present cycle has come to the panel-2 read without reading
\* the panel-1 firmware, and its mapping lacks that key.
C21_Witness ==
  /\ cyc = "panel2"
  /\ REG_PANEL1_FW \in DOMAIN snapshot
  /\ REG_PANEL1_FW \notin ReqSet
  /\ REG_PANEL1_FW \notin DOMAIN data
  /\ REG_FIRMWARE \in DOMAIN data

Range(s) == { s[i] : i \in DOMAIN s }

\* The trailing reads, in the order the cycle issues them.
TrailingOrder == << REG_EXHAUST_TEMP, REG_FIRMWARE, REG_PANEL1_FW, REG_PANEL2_FW >>

\* The first register of each mandatory block, in the order of the blocks:
\* primary control, modes, eco / air quality, active alarms, monitoring.
BlockStarts == << 1, 100, 200, 600, 900 >>

\* The block of the mandatory list a register belongs to.
BlockOf(r) == Cardinality({ i \in DOMAIN BlockStarts : BlockStarts[i] <= r })

\* C27: within one C6-path cycle the reads are issued in a fixed order: the
\* mandatory registers block after block (primary control, modes,
\* eco / air quality, active alarms, monitoring), then the exhaust
\* temperature, the controller firmware, the panel-1 and the panel-2
\* firmware; no trailing read is issued before every mandatory read has
\* succeeded, and the read of a mandatory register that fails is the last
\* read of its cycle.
C27_ReadsInFixedOrder ==
  (C6Path /\ regs # << >>) =>
     LET trailing == (Len(regs) + 1)..Len(requests)
     IN /\ \A i \in 1..(Len(regs) - 1) : regs[i] < regs[i + 1]
        /\ regs[1] = BlockStarts[1]
        /\ \A b \in DOMAIN BlockStarts : BlockStarts[b] \in RegSet
        /\ \A i \in DOMAIN requests : i <= Len(regs) => requests[i] = regs[i]
        /\ \A i, j \in trailing :
             i < j => \E m, n \in DOMAIN TrailingOrder :
                        m < n /\ requests[i] = TrailingOrder[m]
                              /\ requests[j] = TrailingOrder[n]
        /\ \A i \in trailing : requests[i] \in Range(TrailingOrder)
        /\ trailing # {} => RegSet \subseteq DOMAIN data
        /\ MandatoryReadFailed =>
             /\ Len(requests) = idx
             /\ requests[idx] \notin DOMAIN data
             /\ trailing = {}

\* C27 witness: a cycle ended after all the mandatory registers and the four
\* trailing registers had been requested, in that order.
C27_Witness ==
  /\ C6Path /\ CycleEnded /\ outcome = "snapshot"
  /\ Len(requests) = Len(regs) + 4
  /\ SubSeq(requests, Len(regs) + 1, Len(requests)) = TrailingOrder

\* C27 witness of the failing side: a cycle ended at the failed read of a
\* mandatory register of the modes block.
C27_WitnessFailed ==
  C6Path /\ MandatoryReadFailed /\ BlockOf(requests[Len(requests)]) = 2

\* The latest read of the cycle asked for the high word of a 32-bit register
\* only: one word was read from the register's address.
HighWordOnlyRead ==
  /\ regs # << >> /\ requests # << >>
  /\ readWords = 1
  /\ Is32(requests[Len(requests)])

\* C30 as stated: a read whose last word is the high word of a 32-bit
\* register fails and returns no mapping, no value is composed from the
\* missing low word, and the poll cycle reports the failure as a failed
\* update (UpdateFailed), like any other read failure.
C30_MissingLowWordIsUpdateFailed ==
  HighWordOnlyRead =>
     /\ readStatus = "ValueError"
     /\ requests[Len(requests)] \notin DOMAIN data
     /\ CycleEnded /\ outcome = "UpdateFailed"

\* C30 amended: such a read raises ValueError and returns no mapping, no
\* value is composed from the missing low word, and the cycle ends at that
\* read without a mapping; the ValueError leaves the cycle as it is (it is
\* not among the exceptions the cycle turns into UpdateFailed), for a
\* mandatory and for a trailing register alike.
C30_MissingLowWordRaisesValueError ==
  HighWordOnlyRead =>
     /\ readStatus = "ValueError"
     /\ requests[Len(requests)] \notin DOMAIN data
     /\ CycleEnded /\ outcome = "ValueError"

\* C30 witness: the read of a trailing 32-bit register (the controller
\* firmware) was answered with one word, after every mandatory register had
\* been read: the cycle ended in ValueError.
C30_Witness ==
  /\ HighWordOnlyRead /\ requests[Len(requests)] = REG_FIRMWARE
  /\ RegSet \subseteq DOMAIN data
  /\ outcome = "ValueError"

\* C30 witness for a mandatory register.
C30_WitnessMandatory ==
  HighWordOnlyRead /\ Len(requests) <= Len(regs) /\ outcome = "ValueError"

(***************************************************************************)
(* Properties of block reads and of the words written (SpecCatalog).       *)
(***************************************************************************)
\* The 32-bit registers of the range read.
Wide32InRange == { a \in ReadRange : Is32(a) }

\* C22 as stated: a successful block read returns a mapping keyed by
\* register numbers of the range read, with one entry per classified
\* register of the range; the address after a 32-bit register is never a
\* key, and the mapping has as many entries as words were read less the
\* number of 32-bit registers of the range.
C22_BlockReadOneEntryPerRegister ==
  (cop = "read" /\ cout.status = "ok") =>
     /\ DOMAIN cout.data \subseteq ReadRange
     /\ DOMAIN cout.data = { a \in ReadRange : Classified(a) }
     /\ \A a \in Wide32InRange : (a + 1) \notin DOMAIN cout.data
     /\ Cardinality(DOMAIN cout.data) = cin.count - Cardinality(Wide32InRange)

\* C22, for the ranges without REG_BACNET_ID (38, whose low-word address 39
\* is classified as REG_ROOM_SENSOR): the statement holds, and the 34 words
\* from register 1 give 29 entries.
C22_BlockReadApartFromBacnetId ==
  (cop = "read" /\ cout.status = "ok" /\ 38 \notin ReadRange) =>
     /\ DOMAIN cout.data \subseteq ReadRange
     /\ DOMAIN cout.data = { a \in ReadRange : Classified(a) }
     /\ \A a \in Wide32InRange : (a + 1) \notin DOMAIN cout.data
     /\ Cardinality(DOMAIN cout.data) = cin.count - Cardinality(Wide32InRange)
     /\ (cin.register = 1 /\ cin.count = 34) => Cardinality(DOMAIN cout.data) = 29

\* The block of 34 words from register 1 was read into 29 entries.
C22_PrimaryBlockRead ==
  /\ cop = "read" /\ cin.register = 1 /\ cin.count = 34
  /\ cout.status = "ok" /\ Cardinality(DOMAIN cout.data) = 29

\* C24 as stated: for every classified register and every integer value
\* passed to write, negative and over-width ones included, every word handed
\* to the transport is within 0..65535.
C24_WrittenWordsAre16Bit ==
  (cop = "write") => \A i \in DOMAIN cword : cword[i] \in 0..65535

\* C24, for the registers write masks: every word written to a 16-bit signed
\* or a 32-bit register is within 0..65535, and a 16-bit unsigned register
\* is handed the value as it was passed.
C24_WrittenWordsMaskedUnlessUnsigned ==
  (cop = "write") =>
     IF cin.register \in REGISTERS_16BIT_UNSIGNED
       THEN cword = << cin.value >>
       ELSE \A i \in DOMAIN cword : cword[i] \in 0..65535

\* write(REG_INDOOR_HUMIDITY, -1) handed -1 to the transport.
C24_NegativeWordWritten ==
  cop = "write" /\ cin.register = 41 /\ cin.value = 0 - 1 /\ cword = << 0 - 1 >>

\* C30, for block reads (SpecCatalog): a read whose last requested word is
\* the high word of a 32-bit register ends in ValueError with no mapping.
C30_BlockEndingInHighWordRaises ==
  (cop = "read" /\ Is32(cin.register + cin.count - 1)) =>
     (cout.status = "ValueError" /\ cout.data = << >>)

\* A block of three words ending in the high word of a 32-bit register was
\* read and ended in ValueError.
C30_BlockEndingInHighWordRead ==
  /\ cop = "read" /\ cin.count = 3 /\ Is32(cin.register + 2)
  /\ cout.status = "ValueError"

(***************************************************************************)
(* Properties of the entity and service operations (SpecService).          *)
(***************************************************************************)
\* The setpoint registers of MODE_TEMP_MAPPING.
SetpointRegisters == { MODE_TEMP_MAPPING[m] : m \in DOMAIN MODE_TEMP_MAPPING }

\* C23: async_set_temperature writes the setpoint only when the requested
\* temperature is within 5..40 degrees: then it hands one write of a setpoint
\* register with a raw value in 50..400 to the client; for a temperature
\* outside (or none) it issues no write and requests no refresh; a refresh
\* is requested only after a write.
C23_SetpointWrittenOnlyWithinBounds ==
  (cop = "set_temperature") =>
     LET inside == cin.temp # None /\ 500 <= cin.temp[1] /\ cin.temp[1] <= 4000
     IN /\ (cword # << >>) <=> inside
        /\ ~inside => (cword = << >> /\ ~cout.refresh /\ cout.status = "returned")
        /\ cout.refresh => cword # << >>
        /\ \A i \in DOMAIN cword :
             /\ cword[i].register \in SetpointRegisters
             /\ cword[i].value # None
             /\ 50 <= cword[i].value[1] /\ cword[i].value[1] <= 400
             /\ cword[i].value[1] * 10 <= cin.temp[1]
             /\ cin.temp[1] < (cword[i].value[1] + 1) * 10
        /\ Len(cword) <= 1

\* C23 witness: a temperature of 40.01 degrees was refused without a write
\* and without a refresh.
C23_Witness ==
  /\ cop = "set_temperature" /\ cin.temp = Some(4001)
  /\ cword = << >> /\ ~cout.refresh /\ cout.warned

\* C23 witness of the other side: 40 degrees were written as 400 and the
\* refresh requested.
C23_WitnessWritten ==
  /\ cop = "set_temperature" /\ cin.temp = Some(4000)
  /\ Len(cword) = 1 /\ cword[1].value = Some(400) /\ cout.refresh

\* The call names no member of OperationMode.
UnknownMode == cop = "set_operation_mode" /\ Upper(cin.name) \notin DOMAIN OperationMode

\* C28 as stated: set_operation_mode called with a name that is no member
\* of OperationMode issues no write, requests no refresh and returns
\* normally, having logged a warning.
C28_UnknownModeReturnsNormally ==
  UnknownMode =>
     /\ cword = << >>
     /\ ~cout.refresh
     /\ cout.status = "returned"
     /\ cout.warned

\* C28, what the code does: for such a name no write is issued and no
\* refresh requested, and the call ends in KeyError without a warning.
C28_UnknownModeRaisesKeyError ==
  UnknownMode =>
     /\ cword = << >>
     /\ ~cout.refresh
     /\ cout.status = "KeyError"
     /\ ~cout.warned

\* set_operation_mode("turbo") ended in KeyError.
C28_UnknownModeCalled ==
  UnknownMode /\ cin.name = "turbo" /\ cout.status = "KeyError"

\* The timer register of a timed mode.
TimerRegister(name) ==
  IF name = "KITCHEN" THEN 130 ELSE IF name = "FIREPLACE" THEN 137 ELSE 145

\* C29: for KITCHEN, FIREPLACE and OVERRIDE, set_operation_mode writes
\* exactly one value, to the timer register of the mode: the minutes
\* argument if it is given and not zero, else the timer of the snapshot if
\* the snapshot holds one that is not zero, else 60; the value is never
\* zero and never None, whatever the snapshot holds.
C29_TimerWrittenFirstNonZero ==
  (cop = "set_operation_mode" /\ Upper(cin.name) \in {"KITCHEN", "FIREPLACE", "OVERRIDE"}) =>
     LET reg == TimerRegister(Upper(cin.name))
         stored == IF reg \in DOMAIN cin.snapshot THEN << cin.snapshot[reg] >> ELSE << >>
         expected == IF cin.minutes # << >> /\ cin.minutes[1] # 0 THEN cin.minutes
                     ELSE IF stored # << >> /\ stored[1] # 0 THEN stored
                     ELSE << 60 >>
     IN /\ Len(cword) = 1
        /\ cword[1].register = reg
        /\ cword[1].value = expected
        /\ cword[1].value # None
        /\ cword[1].value[1] # 0

\* C29 witness: KITCHEN with no minutes and a snapshot without the timer
\* key: 60 was written to the kitchen timer.
C29_Witness ==
  /\ cop = "set_operation_mode" /\ Upper(cin.name) = "KITCHEN"
  /\ cin.minutes = None /\ 130 \notin DOMAIN cin.snapshot
  /\ cword = << [register |-> 130, value |-> Some(60)] >>

\* C29 witness of the snapshot side: OVERRIDE with minutes 0 and a snapshot
\* timer of 30: 30 was written to the override timer.
C29_WitnessStored ==
  /\ cop = "set_operation_mode" /\ Upper(cin.name) = "OVERRIDE"
  /\ cin.minutes = Some(0) /\ Get(cin.snapshot, 145) = Some(30)
  /\ cword = << [register |-> 145, value |-> Some(30)] >>

(***************************************************************************)
(* Properties of the gate under fair scheduling (SpecFair).                *)
(***************************************************************************)
\* C25: the gate is released on every exit path of read and write: it is
\* held only while a request is in flight, the step in which an operation
\* ends, in a result or in an exception raised by the transport or by write
\* for an unclassified register, leaves the gate free, and every caller
\* waiting at the gate eventually acquires it and ends.
C25_GateReleasedOnEveryExit ==
  /\ [](locked => InFlight # {})
  /\ [][\A c \in Callers : (pc[c] # "done" /\ pc'[c] = "done") => ~locked']_vars
  /\ \A c \in Callers : (pc[c] = "waiting") ~> (pc[c] = "done")

\* C25 witness: the second caller, a write to an unclassified register that
\* had waited behind the first request, was raised inside the gate; the
\* third caller, which had waited behind it, got the gate, and its request
\* ended in ConnectionError; the gate is free and nobody waits.
C25_Witness ==
  /\ AllDone /\ ~locked /\ waiters = << >>
  /\ wire = << 1, 3 >>
  /\ \E n \in noWire : n.id = 2
  /\ result.id = 3 /\ result.status = "ConnectionError"

(***************************************************************************)
(* Properties of a poll cycle with another caller at the gate (SpecCycle). *)
(***************************************************************************)
\* The cycle has ended, in a mapping or in an exception.
CycleOver == cyc = "idle" /\ outcome # "none"

\* The request of operation w went out, or write raised for it.
Served(w) == w \in WireSet \/ (\E n \in noWire : n.id = w)

\* The gate is held for a single request only: whenever it is held exactly
\* one request is in flight, and while no read of the running cycle is in
\* flight the gate is free or held for the other caller's request.
GateHeldPerRequest ==
  /\ locked => Cardinality(InFlight) = 1
  /\ (cyc = "mandatory" /\ \A p \in PollOps : pc[p] = "done") =>
        (locked => \E c \in InFlight : owner[c] = "caller")

\* C26 as stated: the gate is held for a single request only, never across
\* the cycle, and a write issued by another caller during the cycle is
\* served before the cycle ends.
C26_WriteDuringCycleServedBeforeItsEnd ==
  /\ GateHeldPerRequest
  /\ CycleOver => \A w \in CallerOps : Served(w)

\* C26 amended: the gate is held for a single request only, never across
\* the cycle; requests go out in the order the operations reached the gate,
\* so that a write that reached the gate before the last read of the cycle
\* did is served before the cycle ends, while a write that reached it during
\* the last read is woken by that read's release and not yet served when the
\* cycle ends.
C26_WriteBeforeLastReadServedBeforeEnd ==
  /\ GateHeldPerRequest
  /\ \A i, j \in DOMAIN wire : i < j => wire[i] < wire[j]
  /\ CycleOver =>
       \A w \in CallerOps :
          IF \E p \in PollOps : w < p
            THEN Served(w)
            ELSE (pc[w] = "waiting" => w \in futDone)

\* C26 witness: the cycle returned a mapping of two registers, the write of
\* the other caller having been served between the two reads: the mapping
\* combines a value read before the write with one read after it.
C26_Witness ==
  /\ CycleOver /\ outcome = "snapshot"
  /\ Len(wire) = 3
  /\ owner[wire[1]] = "poll" /\ owner[wire[2]] = "caller" /\ owner[wire[3]] = "poll"
  /\ DOMAIN snapshot = { regs[1], regs[2] }
====
